---- MODULE Spec2Model ----
(***************************************************************************)
(* A model of hlld's set manager (src/src/set_manager.c) and of the set    *)
(* objects it manages (src/src/set.c).                                     *)
(*                                                                         *)
(* The specifications share the same state:                                *)
(*   Spec     - client threads and the vacuum thread interleaved at the    *)
(*              granularity of their shared-memory reads and writes;       *)
(*   SpecSeq  - the API called one call at a time, with setmgr_vacuum()    *)
(*              as used by the tests (init_set_manager(.., vacuum = 0));   *)
(*   SpecCold - add_keys interleaved with the list_cold sweep;             *)
(*   SpecRestart - the API with destroy_set_manager and a new              *)
(*              init_set_manager over the same data_dir;                   *)
(*   SpecSet  - the calls of set.h on one set;                             *)
(*   SpecDir  - create, drop, clear, unmap and vacuum, with a create whose *)
(*              init_set can fail;                                         *)
(*   SpecAdd  - hset_add on two threads;                                   *)
(*   SpecLive - create and drop against the vacuum thread, with fairness;  *)
(*   SpecStop - the vacuum thread and a thread of background.c when        *)
(*              should_run is cleared, with fairness;                      *)
(*   SpecLock - flush, size, add_keys, cb and unmap on two threads, at the *)
(*              granularity of the locks of the wrapper and of the set;    *)
(*   SpecDestroy - the API one call at a time, ended by                    *)
(*              destroy_set_manager;                                       *)
(*   SpecShutdown - SpecStop followed by destroy_set_manager;              *)
(*   SpecFault - add, flush and close on one set with system calls that    *)
(*              fail;                                                      *)
(*   SpecSize - the calls of set.h on one set, with two keys;              *)
(*   SpecWait - the calls of the clients and the vacuum thread with the    *)
(*              locks they wait for;                                       *)
(*   SpecBytes - hll_bytes_for_precision and hset_byte_size.               *)
(***************************************************************************)
EXTENDS Integers, Sequences, FiniteSets, TLC

(***************************************************************************)
(* Bounds of the model.                                                    *)
(***************************************************************************)
\* The largest version number the model lets mgr->vsn reach.
MaxVsn == 5
\* The number of hlld_set_wrapper objects that can ever be allocated.
MaxSets == 2
\* The longest key array handed to setmgr_set_keys.
MaxKeys == 1
\* The longest key array in the interleaved runs, where the calls race on
\* the directory and not on the registers.
ConcMaxKeys == 0
\* The largest version number and wrapper count in the one-call-at-a-time runs.
SeqMaxVsn == 3
SeqMaxSets == 2
\* The largest value the model lets set->counters.sets reach.
MaxAdds == 2
\* The longest key array one set-level add_keys call is given.
SetMaxKeys == 2
\* The number of calls the threads of SpecLock make on the set.
MaxCalls == 3
\* The number of 4096-byte pages of the register bitmap.
MaxPages == 2
\* The versions below MaxVsn that the fair runs keep for the BARRIER deltas
\* of the vacuum thread: no create or drop starts above MaxVsn - LiveReserve.
LiveReserve == 3

(***************************************************************************)
(* Values.  A set name is a string, modelled as a tuple of characters so   *)
(* that strncmp() on a prefix can be computed.  NameOrder lists the names  *)
(* in the byte order in which art_iter visits the keys of a tree.          *)
(***************************************************************************)
NameOrder == << <<"b">>, <<"b", "a">> >>
Names == {NameOrder[i] : i \in 1..Len(NameOrder)}
\* The names the interleaved specification draws from.
ConcNames == {NameOrder[1]}
\* The prefixes handed to setmgr_list_sets; <<>> stands for NULL and "".
Prefixes == {<<>>, <<"b">>, <<"b", "a">>, <<"x">>}
Keys == {"k1"}
Clients == {"c1", "c2"}

NoSet == 0
NoRow == -1
NoNode == 0
Wrappers == 1..(IF MaxSets > SeqMaxSets THEN MaxSets ELSE SeqMaxSets)

VARIABLES
    vsn,              \* mgr->vsn
    primary_vsn,      \* mgr->primary_vsn
    set_map,          \* which of the two ART trees mgr->set_map points at
    trees,            \* the two ART trees: name -> wrapper
    delta,            \* mgr->delta, newest first
    pending_deletes,  \* mgr->pending_deletes (the names in the list)
    clients,          \* mgr->clients: the row of each thread, or NoRow
    write_lock,       \* holder of mgr->write_lock, or "free"
    wr,               \* every hlld_set_wrapper with its hlld_set
    disk,             \* the set folders under data_dir
    cl,               \* the position of each client thread in its call
    vac,              \* the position of the vacuum thread
    crashed,          \* the process dereferenced NULL
    last,             \* the last completed call of the sequential runs
    life,             \* per name: what the calls so far did to it
    scen,             \* progress through the cold-sweep scenario
    cold,             \* the list_cold sweep and its observer
    counters,         \* set->counters.sets, followed by the set-level actions
                      \* (SpecSet, SpecAdd); the directory-level ones keep no count
    should_run        \* mgr->should_run and the should_run flag of the threads
                      \* of background.c, as the running threads read them

mgrVars == <<vsn, primary_vsn, set_map, trees, delta, pending_deletes, clients, write_lock>>
setVars == <<wr, disk>>
seqVars == <<last, life, scen>>
vars == <<vsn, primary_vsn, set_map, trees, delta, pending_deletes, clients,
          write_lock, wr, disk, cl, vac, crashed, last, life, scen, cold, counters, should_run>>

(***************************************************************************)
(* The set folder on disk (set.c: SET_FOLDER_NAME, CONFIG_FILENAME,        *)
(* DATA_FILE_NAME).                                                        *)
(***************************************************************************)
\* empty: the register file has length 0 (followed by the runs of SpecFault)
\* precision: default_precision of config.ini; len: the length of the
\* register file (followed by the runs of SpecBytes)
NoDir == [dir |-> FALSE, ini |-> FALSE, size |-> 0, in_memory |-> FALSE,
          file |-> FALSE, regs |-> {}, empty |-> FALSE, precision |-> 0, len |-> 0]

\* The slot of a wrapper that was never allocated.
Unused == [st |-> "unused", name |-> <<>>, is_active |-> FALSE, is_hot |-> FALSE,
           should_delete |-> FALSE, in_memory |-> FALSE, cfg_size |-> 0,
           is_proxied |-> TRUE, is_dirty |-> FALSE, regs |-> {},
           hll_update |-> "free",
           \* the locks and page counters that the runs of SpecLock follow:
           \* wrapper->rwlock, set->hll_lock, counters.page_ins, .page_outs
           rwlock |-> [readers |-> {}, writer |-> "free"], hll_lock |-> "free",
           page_ins |-> 0, page_outs |-> 0,
           \* set->bm holds a mapping ("open") or not ("none"): followed by
           \* the runs of SpecFault
           bm |-> "none",
           \* set_config.default_precision and bm.size: followed by the runs
           \* of SpecBytes
           precision |-> 0, bm_size |-> 0]

\* hll_size: the estimate of a register state.  The registers are modelled
\* by the set of keys added to them; for the small cardinalities of the
\* model the estimate is exact (tests/test_setmgr.c expects 3 for 3 keys).
hll_size(regs) == Cardinality(regs)

\* hset_size
hset_size(s) == IF ~s.is_proxied THEN hll_size(s.regs) ELSE s.cfg_size

\* hset_is_proxied
hset_is_proxied(s) == s.is_proxied

\* a flush that writes nothing back
bitmap_flush_none(s, d) == d
\* bitmap_flush of the register bitmap: PERSISTENT (use_mmap = 0, the
\* default) writes every page back to the file the descriptor refers to.
bitmap_flush(s, d) ==
    IF d.file THEN [d EXCEPT !.regs = s.regs] ELSE d

\* thread_safe_fault: [s, d, res]
thread_safe_fault(s, d) ==
    IF ~s.is_proxied THEN [s |-> s, d |-> d, res |-> 0]
    ELSE IF s.in_memory
         THEN [s |-> [s EXCEPT !.is_proxied = FALSE, !.regs = {}], d |-> d, res |-> 0]
    ELSE IF d.file
         THEN [s |-> [s EXCEPT !.is_proxied = FALSE, !.regs = d.regs], d |-> d, res |-> 0]
    ELSE IF d.dir
         THEN [s |-> [s EXCEPT !.is_proxied = FALSE, !.regs = {}],
               d |-> [d EXCEPT !.file = TRUE, !.regs = {}], res |-> 0]
    ELSE [s |-> s, d |-> d, res |-> -1]

\* a flush that does not write config.ini
hset_flush_no_ini(s, d) ==
    IF s.is_proxied \/ ~s.is_dirty THEN [s |-> s, d |-> d]
    ELSE LET s1 == [s EXCEPT !.cfg_size = hset_size(s), !.is_dirty = FALSE]
         IN  [s |-> s1, d |-> IF ~s.in_memory THEN bitmap_flush(s1, d) ELSE d]
\* hset_flush: [s, d]
hset_flush(s, d) ==
    IF s.is_proxied \/ ~s.is_dirty THEN [s |-> s, d |-> d]
    ELSE LET s1 == [s EXCEPT !.cfg_size = hset_size(s), !.is_dirty = FALSE]
             d1 == IF d.dir
                   THEN [d EXCEPT !.ini = TRUE, !.size = s1.cfg_size,
                                  !.in_memory = s.in_memory]
                   ELSE d
         IN  [s |-> s1, d |-> IF ~s.in_memory THEN bitmap_flush(s1, d1) ELSE d1]

\* a close that unmaps the registers without flushing them
hset_close_no_flush(s, d) ==
    IF s.is_proxied THEN [s |-> s, d |-> d]
    ELSE [s |-> [s EXCEPT !.is_proxied = TRUE, !.regs = {}], d |-> d]
\* hset_close: [s, d].  hll_destroy closes the bitmap, which flushes it.
hset_close(s, d) ==
    IF s.is_proxied THEN [s |-> s, d |-> d]
    ELSE LET f == hset_flush(s, d)
             d1 == IF ~s.in_memory THEN bitmap_flush(f.s, f.d) ELSE f.d
         IN  [s |-> [f.s EXCEPT !.is_proxied = TRUE, !.regs = {}], d |-> d1]

\* hset_delete: [s, d]
hset_delete(s, d) == [s |-> hset_close(s, d).s, d |-> NoDir]

\* hset_add: [s, d, res]
hset_add(s, d, key) ==
    LET f == thread_safe_fault(s, d)
    IN  IF f.res # 0 THEN [s |-> f.s, d |-> f.d, res |-> -1]
        ELSE [s |-> [f.s EXCEPT !.regs = @ \cup {key}, !.is_dirty = TRUE],
              d |-> f.d, res |-> 0]

\* init_set: [s, d, res].  s arrives with the wrapper fields filled in.
init_set(s, d, in_memory, discover) ==
    LET d1 == [d EXCEPT !.dir = TRUE]
        s1 == [s EXCEPT !.is_dirty = TRUE, !.is_proxied = TRUE, !.regs = {},
                        !.in_memory = IF d1.ini THEN d1.in_memory ELSE in_memory,
                        !.cfg_size = IF d1.ini THEN d1.size ELSE 0]
        f  == IF discover THEN thread_safe_fault(s1, d1)
              ELSE [s |-> s1, d |-> d1, res |-> 0]
        g  == hset_flush(f.s, f.d)
    IN  IF f.res # 0 THEN f ELSE [s |-> g.s, d |-> g.d, res |-> 0]

(***************************************************************************)
(* The ART trees (art.h), as maps from a name to a wrapper.                *)
(***************************************************************************)
EmptyTree == [n \in Names |-> NoSet]
art_search(tree, name) == tree[name]
art_insert(tree, name, w) == [tree EXCEPT ![name] = w]
art_delete(tree, name) == [tree EXCEPT ![name] = NoSet]

\* a comparison that accepts every name
AnyPrefix(name, prefix) == TRUE
\* strncmp(name, prefix, prefix_len) == 0
HasPrefix(name, prefix) ==
    /\ Len(prefix) <= Len(name)
    /\ \A i \in 1..Len(prefix) : name[i] = prefix[i]

\* mgr->alt_set_map: the tree mgr->set_map does not point at
alt_set_map == 1 - set_map

(***************************************************************************)
(* The wrappers and the delta list.                                        *)
(***************************************************************************)
Create == "CREATE"
Delete == "DELETE"
Barrier == "BARRIER"

\* the name a delta entry is about: current->set->set->set_name
NodeName(e) == wr[e.set].name

\* One iteration of the delta walk of find_set at entry e, with the value
\* of mgr->primary_vsn read in that iteration.
find_step(e, name, pvsn) ==
    IF e.type # Barrier /\ NodeName(e) = name THEN "match"
    ELSE IF e.vsn = pvsn + 1 THEN "stop"
    ELSE "next"

\* the delta walk of find_set from the i-th entry of log
RECURSIVE find_walk(_, _, _, _)
find_walk(log, i, name, pvsn) ==
    IF i > Len(log) THEN NoSet
    ELSE LET r == find_step(log[i], name, pvsn)
         IN  IF r = "match" THEN log[i].set
             ELSE IF r = "stop" THEN NoSet
             ELSE find_walk(log, i + 1, name, pvsn)

\* a lookup that never reads the delta list
find_set_tree_only(name) == art_search(trees[set_map], name)
\* find_set, run without interruption
find_set(name) ==
    LET w == art_search(trees[set_map], name)
    IN  IF w # NoSet THEN w
        ELSE IF primary_vsn = vsn THEN NoSet
        ELSE find_walk(delta, 1, name, primary_vsn)

\* a take_set that does not look at is_active
take_check_any(w) == w
\* the test take_set applies to what find_set returned
take_check(w) == IF w # NoSet /\ wr[w].is_active THEN w ELSE NoSet

\* take_set, run without interruption
take_set(name) == take_check(find_set(name))

\* create_delta_update: the new list
create_delta_update(type, w) ==
    <<[vsn |-> vsn + 1, type |-> type, set |-> w]>> \o delta

\* a merge that inserts the created sets and leaves the deleted ones in
RECURSIVE merge_creates_only(_, _, _, _)
merge_creates_only(tree, log, i, min_vsn) ==
    IF i > Len(log) THEN tree
    ELSE LET t == merge_creates_only(tree, log, i + 1, min_vsn)
             e == log[i]
         IN  IF e.vsn <= min_vsn /\ e.type = Create
             THEN art_insert(t, NodeName(e), e.set) ELSE t

\* merge_old_versions: the entries of log[1..i] applied to tree, oldest first
RECURSIVE merge_old_versions(_, _, _, _)
merge_old_versions(tree, log, i, min_vsn) ==
    IF i > Len(log) THEN tree
    ELSE LET t == merge_old_versions(tree, log, i + 1, min_vsn)
             e == log[i]
         IN  IF e.vsn > min_vsn THEN t
             ELSE IF e.type = Create THEN art_insert(t, NodeName(e), e.set)
             ELSE IF e.type = Delete THEN art_delete(t, NodeName(e))
             ELSE t

\* mark_pending_deletes: the names put on the list
mark_pending_deletes(log, min_vsn) ==
    {NodeName(log[i]) : i \in {j \in 1..Len(log) :
                                 log[j].vsn <= min_vsn /\ log[j].type = Delete}}

\* remove_delta_versions: the number of entries that stay on the list
remove_delta_versions(log, min_vsn) ==
    IF \E i \in 1..Len(log) : log[i].vsn <= min_vsn
    THEN (CHOOSE i \in 1..Len(log) :
            /\ log[i].vsn <= min_vsn
            /\ \A j \in 1..(i - 1) : log[j].vsn > min_vsn) - 1
    ELSE Len(log)

\* a delete_set that closes the set whatever should_delete says
delete_set_close_only(W, D, w) ==
    LET s == W[w]
        r == hset_close(s, D[s.name])
    IN  [wr   |-> [W EXCEPT ![w] = [r.s EXCEPT !.st =
                        IF s.st = "live" THEN "freed" ELSE "double_free"]],
         disk |-> [D EXCEPT ![s.name] = r.d]]

\* a delete_set that removes the files whatever should_delete says
delete_set_always(W, D, w) ==
    LET s == W[w]
        r == hset_delete(s, D[s.name])
    IN  [wr   |-> [W EXCEPT ![w] = [r.s EXCEPT !.st =
                        IF s.st = "live" THEN "freed" ELSE "double_free"]],
         disk |-> [D EXCEPT ![s.name] = r.d]]

\* delete_set: [wr, disk] after the wrapper w was cleaned up and freed
delete_set(W, D, w) ==
    LET s == W[w]
        d == D[s.name]
        r == IF s.should_delete THEN hset_delete(s, d) ELSE hset_close(s, d)
    IN  [wr   |-> [W EXCEPT ![w] = [r.s EXCEPT !.st =
                        IF s.st = "live" THEN "freed" ELSE "double_free"]],
         disk |-> [D EXCEPT ![s.name] = r.d]]

\* the loop of delete_old_versions over the unlinked entries old[i..]
RECURSIVE delete_old_list(_, _, _, _)
delete_old_list(W, D, old, i) ==
    IF i > Len(old) THEN [wr |-> W, disk |-> D]
    ELSE IF old[i].type = Delete
         THEN LET r == delete_set(W, D, old[i].set)
              IN  delete_old_list(r.wr, r.disk, old, i + 1)
         ELSE delete_old_list(W, D, old, i + 1)

\* a horizon that ignores the rows of the clients
client_min_vsn_no_rows == vsn
\* client_min_vsn
client_min_vsn ==
    LET rows == {clients[c] : c \in {x \in Clients : clients[x] # NoRow}} \cup {vsn}
    IN  CHOOSE m \in rows : \A r \in rows : m <= r

\* the slot calloc returns in add_set: the first one never used
FreeSlots(max) == {w \in 1..max : wr[w].st = "unused"}
NextSlot(max) == CHOOSE w \in FreeSlots(max) : \A x \in FreeSlots(max) : w <= x

\* add_set with delta = 1: [s, d, res], s being the new wrapper
add_set(name, in_memory, is_hot) ==
    init_set([Unused EXCEPT !.st = "live", !.name = name, !.is_active = TRUE,
                            !.is_hot = is_hot, !.should_delete = FALSE],
             disk[name], in_memory, is_hot)

\* set_map_list_cb over the primary tree, in key order (art_iter and
\* art_iter_prefix), from the i-th name on
RECURSIVE list_tree(_, _, _)
list_tree(tree, prefix, i) ==
    IF i > Len(NameOrder) THEN <<>>
    ELSE LET n == NameOrder[i]
             w == tree[n]
         IN  (IF w # NoSet /\ HasPrefix(n, prefix) /\ wr[w].is_active
              THEN <<n>> ELSE <<>>) \o list_tree(tree, prefix, i + 1)

\* One iteration of the delta walk of setmgr_list_sets at entry e:
\* the names appended
list_step(e, prefix) ==
    IF e.type = Create /\ HasPrefix(NodeName(e), prefix) /\ wr[e.set].is_active
    THEN <<NodeName(e)>> ELSE <<>>

\* the delta walk of setmgr_list_sets from the i-th entry of log
RECURSIVE list_walk(_, _, _, _)
list_walk(log, i, prefix, pvsn) ==
    IF i > Len(log) THEN <<>>
    ELSE list_step(log[i], prefix) \o
         (IF log[i].vsn = pvsn + 1 THEN <<>>
          ELSE list_walk(log, i + 1, prefix, pvsn))

\* setmgr_list_sets, run without interruption
setmgr_list_sets(prefix) ==
    list_tree(trees[set_map], prefix, 1) \o
    (IF primary_vsn = vsn THEN <<>> ELSE list_walk(delta, 1, prefix, primary_vsn))

\* a callback that does not look at is_hot
list_cold_cb_no_hot(s) == IF hset_is_proxied(s) THEN "proxied" ELSE "cold"
\* set_map_list_cold_cb on one wrapper: "hot", "proxied" or "cold"
list_cold_cb(s) ==
    IF s.is_hot THEN "hot"
    ELSE IF hset_is_proxied(s) THEN "proxied"
    ELSE "cold"

\* setmgr_list_cold_sets, run without interruption: the names returned
\* (each is pushed at the head of the list)
RECURSIVE list_cold_names(_, _)
list_cold_names(tree, i) ==
    IF i > Len(NameOrder) THEN <<>>
    ELSE LET w == tree[NameOrder[i]]
         IN  list_cold_names(tree, i + 1) \o
             (IF w # NoSet /\ list_cold_cb(wr[w]) = "cold"
              THEN <<NameOrder[i]>> ELSE <<>>)

\* setmgr_list_cold_sets: the wrappers after the sweep cleared is_hot
list_cold_clear(tree) ==
    [w \in Wrappers |->
        IF (\E n \in Names : tree[n] = w) /\ wr[w].is_hot
        THEN [wr[w] EXCEPT !.is_hot = FALSE] ELSE wr[w]]

Range(s) == {s[i] : i \in 1..Len(s)}

(***************************************************************************)
(* The state after init_set_manager on an empty data_dir.                  *)
(***************************************************************************)
IdleClient == [pc |-> "idle", op |-> "none", name |-> <<>>, w |-> NoSet,
               cur |-> NoNode, v |-> 0, res |-> "none", out |-> <<>>,
               since |-> FALSE, win |-> FALSE]
IdleVacuum == [pc |-> "idle", min_vsn |-> 0, barrier |-> 0, old |-> <<>>]
IdleCold == [pc |-> "idle", i |-> 0, out |-> <<>>,
             adder |-> "idle", aw |-> NoSet, touched |-> {}, viol |-> {}]
NoCall == [op |-> "init", name |-> <<>>, res |-> "Ok", num |-> 0, out |-> <<>>,
           was |-> "none"]
NoLife == [ph |-> "none", size |-> 0]
NoScen == [st |-> 0, hot |-> <<>>, cold |-> <<>>]

init_set_manager ==
    /\ vsn = 0
    /\ primary_vsn = 0
    /\ set_map = 0
    /\ trees = [t \in {0, 1} |-> EmptyTree]
    /\ delta = <<>>
    /\ pending_deletes = {}
    /\ clients = [c \in Clients |-> NoRow]
    /\ write_lock = "free"
    /\ wr = [w \in Wrappers |-> Unused]
    /\ disk = [n \in Names |-> NoDir]
    /\ cl = [c \in Clients |-> IdleClient]
    /\ vac = IdleVacuum
    /\ crashed = FALSE
    /\ last = NoCall
    /\ life = [n \in Names |-> NoLife]
    /\ scen = NoScen
    /\ cold = IdleCold
    /\ counters = [w \in Wrappers |-> 0]
    /\ should_run = TRUE

(***************************************************************************)
(* SpecSeq: the API called one call at a time.                             *)
(***************************************************************************)
\* what the calls made so far did to each name
LifeNext(c) ==
    [n \in Names |->
        IF c.op = "vacuum" /\ c.res = "Ok"
        THEN (IF life[n].ph = "dropped" THEN [life[n] EXCEPT !.ph = "vac_dropped"]
              ELSE IF life[n].ph = "cleared" THEN [life[n] EXCEPT !.ph = "vac_cleared"]
              ELSE life[n])
        ELSE IF n # c.name THEN life[n]
        ELSE IF c.op = "create" /\ c.res = "Ok"
             THEN (IF life[n].ph = "vac_cleared" THEN [life[n] EXCEPT !.ph = "reloaded"]
                   ELSE [ph |-> "active", size |-> 0])
        ELSE IF c.op = "drop" /\ c.res = "Ok" THEN [ph |-> "dropped", size |-> 0]
        ELSE IF c.op = "clear" /\ c.res = "Ok" THEN [ph |-> "cleared", size |-> c.num]
        ELSE IF c.op = "add_keys" /\ c.res # "NotFound" /\ life[n].ph = "reloaded"
             THEN [ph |-> "active", size |-> 0]
        ELSE life[n]]

\* progress through: create(hot), create(cold), vacuum, [list_cold,]
\* add_keys(hot, one key), list_cold
ScenNext(c) ==
    IF scen.st = 0 /\ c.op = "create" /\ c.res = "Ok"
    THEN [st |-> 1, hot |-> c.name, cold |-> <<>>]
    ELSE IF scen.st = 1 /\ c.op = "create" /\ c.res = "Ok"
    THEN [scen EXCEPT !.st = 2, !.cold = c.name]
    ELSE IF scen.st = 2 /\ c.op = "vacuum" /\ c.res = "Ok"
    THEN [scen EXCEPT !.st = 3]
    ELSE IF scen.st = 3 /\ c.op = "list_cold"
    THEN [scen EXCEPT !.st = 13]
    ELSE IF scen.st \in {3, 13} /\ c.op = "add_keys" /\ c.res = "Ok" /\ c.name = scen.hot
            /\ c.num = 1
    THEN [scen EXCEPT !.st = @ + 1]
    ELSE IF scen.st \in {4, 14} /\ c.op = "list_cold"
    THEN [scen EXCEPT !.st = @ + 1]
    ELSE [st |-> -1, hot |-> <<>>, cold |-> <<>>]

Called(c) ==
    /\ last' = c
    /\ life' = LifeNext(c)
    /\ scen' = ScenNext(c)
    /\ UNCHANGED <<cl, vac, cold, clients, write_lock, counters, should_run>>

CallRec(op, name, res) ==
    [op |-> op, name |-> name, res |-> res, num |-> 0, out |-> <<>>,
     was |-> IF name \in Names THEN life[name].ph ELSE "none"]

Results == {"Ok", "AlreadyExists", "DeleteInProgress", "Internal", "NotFound",
            "NotProxied", "Crash"}

\* setmgr_create_set(mgr, n, custom) with custom->in_memory = im, run
\* without interruption and returning res
create_set(n, im, res) ==
    LET w == find_set(n)
    IN  IF w # NoSet
        THEN /\ res = (IF wr[w].is_active THEN "AlreadyExists" ELSE "DeleteInProgress")
             /\ UNCHANGED <<vsn, delta, wr, disk>>
        ELSE IF n \in pending_deletes
        THEN /\ res = "DeleteInProgress"
             /\ UNCHANGED <<vsn, delta, wr, disk>>
        ELSE /\ FreeSlots(SeqMaxSets) # {}
             /\ vsn < SeqMaxVsn
             /\ LET id == NextSlot(SeqMaxSets)
                    a  == add_set(n, im, TRUE)
                IN  /\ disk' = [disk EXCEPT ![n] = a.d]
                    /\ IF a.res # 0
                       THEN /\ res = "Internal"
                            /\ UNCHANGED <<vsn, delta, wr>>
                       ELSE /\ res = "Ok"
                            /\ wr' = [wr EXCEPT ![id] = a.s]
                            /\ delta' = create_delta_update(Create, id)
                            /\ vsn' = vsn + 1

SeqCreate(n, im) ==
    /\ ~crashed
    /\ \E res \in Results : create_set(n, im, res) /\ Called(CallRec("create", n, res))
    /\ UNCHANGED <<primary_vsn, set_map, trees, pending_deletes, crashed>>

\* setmgr_drop_set
SeqDrop(n) ==
    /\ ~crashed
    /\ LET w == take_set(n)
       IN  IF w = NoSet
           THEN /\ Called(CallRec("drop", n, "NotFound"))
                /\ UNCHANGED <<vsn, delta, wr>>
           ELSE /\ vsn < SeqMaxVsn
                /\ wr' = [wr EXCEPT ![w].is_active = FALSE, ![w].should_delete = TRUE]
                /\ delta' = create_delta_update(Delete, w)
                /\ vsn' = vsn + 1
                /\ Called(CallRec("drop", n, "Ok"))
    /\ UNCHANGED <<primary_vsn, set_map, trees, pending_deletes, disk, crashed>>

\* a clear that takes the set out of service before it tests is_proxied
SeqClearEager(n) ==
    /\ ~crashed
    /\ LET w == take_set(n)
       IN  IF w = NoSet
           THEN /\ Called(CallRec("clear", n, "NotFound"))
                /\ UNCHANGED <<vsn, delta, wr>>
           ELSE /\ wr' = [wr EXCEPT ![w].is_active = FALSE, ![w].should_delete = FALSE]
                /\ IF ~hset_is_proxied(wr[w])
                   THEN /\ Called(CallRec("clear", n, "NotProxied"))
                        /\ UNCHANGED <<vsn, delta>>
                   ELSE /\ vsn < SeqMaxVsn
                        /\ delta' = create_delta_update(Delete, w)
                        /\ vsn' = vsn + 1
                        /\ Called([CallRec("clear", n, "Ok") EXCEPT
                                      !.num = hset_size(wr[w])])
    /\ UNCHANGED <<primary_vsn, set_map, trees, pending_deletes, disk, crashed>>

\* setmgr_clear_set
SeqClear(n) ==
    /\ ~crashed
    /\ LET w == take_set(n)
       IN  IF w = NoSet
           THEN /\ Called(CallRec("clear", n, "NotFound"))
                /\ UNCHANGED <<vsn, delta, wr>>
           ELSE IF ~hset_is_proxied(wr[w])
           THEN /\ Called(CallRec("clear", n, "NotProxied"))
                /\ UNCHANGED <<vsn, delta, wr>>
           ELSE /\ vsn < SeqMaxVsn
                /\ wr' = [wr EXCEPT ![w].is_active = FALSE, ![w].should_delete = FALSE]
                /\ delta' = create_delta_update(Delete, w)
                /\ vsn' = vsn + 1
                /\ Called([CallRec("clear", n, "Ok") EXCEPT !.num = hset_size(wr[w])])
    /\ UNCHANGED <<primary_vsn, set_map, trees, pending_deletes, disk, crashed>>

\* setmgr_vacuum on a list that is not empty
setmgr_vacuum ==
    LET v    == vsn
        alt  == merge_old_versions(trees[alt_set_map], delta, 1, v)
        prim == merge_old_versions(trees[set_map], delta, 1, v)
        keep == remove_delta_versions(delta, v)
        r    == delete_old_list(wr, disk, SubSeq(delta, keep + 1, Len(delta)), 1)
    IN  /\ trees' = [trees EXCEPT ![alt_set_map] = alt, ![set_map] = prim]
        /\ set_map' = alt_set_map
        /\ primary_vsn' = v
        /\ delta' = SubSeq(delta, 1, keep)
        /\ wr' = r.wr
        /\ disk' = r.disk

\* setmgr_vacuum.  merge_old_versions reads delta->next first: with an
\* empty list that is a read through NULL.
SeqVacuum ==
    /\ ~crashed
    /\ IF delta = <<>>
       THEN /\ crashed' = TRUE
            /\ Called(CallRec("vacuum", <<>>, "Crash"))
            /\ UNCHANGED <<vsn, primary_vsn, set_map, trees, delta, pending_deletes,
                           wr, disk>>
       ELSE /\ setmgr_vacuum
            /\ Called(CallRec("vacuum", <<>>, "Ok"))
            /\ UNCHANGED <<vsn, pending_deletes, crashed>>

\* the loop of setmgr_set_keys over keys[i..]: [s, d, res]
RECURSIVE set_keys_loop(_, _, _, _)
set_keys_loop(s, d, keys, i) ==
    IF i > Len(keys) THEN [s |-> s, d |-> d, res |-> 0]
    ELSE LET a == hset_add(s, d, keys[i])
         IN  IF a.res # 0 THEN a ELSE set_keys_loop(a.s, a.d, keys, i + 1)

\* setmgr_set_keys: "set->is_hot = 1"
mark_hot(s) == [s EXCEPT !.is_hot = TRUE]

\* setmgr_set_keys on the wrapper take_set returned: [s, d, res]
setmgr_set_keys(s, d, keys) ==
    LET a == set_keys_loop(s, d, keys, 1)
    IN  [s |-> mark_hot(a.s), d |-> a.d,
         res |-> IF a.res = -1 THEN "Internal" ELSE "Ok"]

\* an unmap that closes in-memory sets as well
setmgr_unmap_set_any(s, d) == hset_close(s, d)
\* setmgr_unmap_set on the wrapper take_set returned: [s, d]
setmgr_unmap_set(s, d) ==
    IF s.in_memory THEN [s |-> s, d |-> d] ELSE hset_close(s, d)

KeySeqs(max) == UNION {[1..k -> Keys] : k \in 0..max}

\* setmgr_set_keys(mgr, n, keys, Len(keys))
SeqAddKeys(n, keys) ==
    /\ ~crashed
    /\ LET w == take_set(n)
       IN  IF w = NoSet
           THEN /\ Called(CallRec("add_keys", n, "NotFound"))
                /\ UNCHANGED <<wr, disk>>
           ELSE LET a == setmgr_set_keys(wr[w], disk[n], keys)
                IN  /\ wr' = [wr EXCEPT ![w] = a.s]
                    /\ disk' = [disk EXCEPT ![n] = a.d]
                    /\ Called([CallRec("add_keys", n, a.res) EXCEPT !.num = Len(keys)])
    /\ UNCHANGED <<vsn, primary_vsn, set_map, trees, delta, pending_deletes, crashed>>

\* setmgr_set_size
SeqSize(n) ==
    /\ ~crashed
    /\ LET w == take_set(n)
       IN  IF w = NoSet
           THEN Called(CallRec("size", n, "NotFound"))
           ELSE Called([CallRec("size", n, "Ok") EXCEPT !.num = hset_size(wr[w])])
    /\ UNCHANGED <<vsn, primary_vsn, set_map, trees, delta, pending_deletes, wr, disk,
                   crashed>>

\* setmgr_flush_set
SeqFlush(n) ==
    /\ ~crashed
    /\ LET w == take_set(n)
       IN  IF w = NoSet
           THEN /\ Called(CallRec("flush", n, "NotFound"))
                /\ UNCHANGED <<wr, disk>>
           ELSE LET f == hset_flush(wr[w], disk[n])
                IN  /\ wr' = [wr EXCEPT ![w] = f.s]
                    /\ disk' = [disk EXCEPT ![n] = f.d]
                    /\ Called(CallRec("flush", n, "Ok"))
    /\ UNCHANGED <<vsn, primary_vsn, set_map, trees, delta, pending_deletes, crashed>>

\* setmgr_unmap_set
SeqUnmap(n) ==
    /\ ~crashed
    /\ LET w == take_set(n)
       IN  IF w = NoSet
           THEN /\ Called(CallRec("unmap", n, "NotFound"))
                /\ UNCHANGED <<wr, disk>>
           ELSE LET u == setmgr_unmap_set(wr[w], disk[n])
                IN  /\ wr' = [wr EXCEPT ![w] = u.s]
                    /\ disk' = [disk EXCEPT ![n] = u.d]
                    /\ Called(CallRec("unmap", n, "Ok"))
    /\ UNCHANGED <<vsn, primary_vsn, set_map, trees, delta, pending_deletes, crashed>>

\* setmgr_set_cb: the callback only reads the set
SeqCb(n) ==
    /\ ~crashed
    /\ LET w == take_set(n)
       IN  Called(CallRec("cb", n, IF w = NoSet THEN "NotFound" ELSE "Ok"))
    /\ UNCHANGED <<vsn, primary_vsn, set_map, trees, delta, pending_deletes, wr, disk,
                   crashed>>

\* setmgr_list_sets(mgr, p, &head)
SeqList(p) ==
    /\ ~crashed
    /\ Called([CallRec("list", p, "Ok") EXCEPT !.out = setmgr_list_sets(p)])
    /\ UNCHANGED <<vsn, primary_vsn, set_map, trees, delta, pending_deletes, wr, disk,
                   crashed>>

\* setmgr_list_cold_sets
SeqListCold ==
    /\ ~crashed
    /\ wr' = list_cold_clear(trees[set_map])
    /\ Called([CallRec("list_cold", <<>>, "Ok") EXCEPT
                  !.out = list_cold_names(trees[set_map], 1)])
    /\ UNCHANGED <<vsn, primary_vsn, set_map, trees, delta, pending_deletes, disk,
                   crashed>>

SeqNext ==
    \/ \E n \in Names, im \in BOOLEAN : SeqCreate(n, im)
    \/ \E n \in Names : SeqDrop(n)
    \/ \E n \in Names : SeqClear(n)
    \/ SeqVacuum
    \/ \E n \in Names, keys \in KeySeqs(MaxKeys) : SeqAddKeys(n, keys)
    \/ \E n \in Names : SeqSize(n)
    \/ \E n \in Names : SeqFlush(n)
    \/ \E n \in Names : SeqUnmap(n)
    \/ \E n \in Names : SeqCb(n)
    \/ \E p \in Prefixes : SeqList(p)
    \/ SeqListCold

SpecSeq == init_set_manager /\ [][SeqNext]_vars

(***************************************************************************)
(* Properties of the one-call-at-a-time runs.                              *)
(***************************************************************************)
\* the name has an allocated wrapper with is_active set
HasActive(n) ==
    \E w \in Wrappers : wr[w].st = "live" /\ wr[w].name = n /\ wr[w].is_active
\* the name has an allocated wrapper with is_active cleared
HasInactive(n) ==
    \E w \in Wrappers : wr[w].st = "live" /\ wr[w].name = n /\ ~wr[w].is_active
NoDuplicates(s) == \A i, j \in 1..Len(s) : s[i] = s[j] => i = j
TakeOps == {"add_keys", "size", "flush", "unmap", "cb", "drop", "clear"}

\* C5: a call of add_keys, size, flush, unmap, cb, drop or clear on a name
\* that has no active wrapper returns NotFound and changes neither the
\* manager nor any set nor the disk, also while an inactive wrapper of that
\* name is still in the primary tree or on the delta list.
C5_NotFoundChangesNothing ==
    [][(last'.op \in TakeOps /\ ~HasActive(last'.name))
          => (last'.res = "NotFound" /\ UNCHANGED <<mgrVars, setVars>>)]_vars
C5_Witness ==
    /\ last.op \in TakeOps
    /\ last.res = "NotFound"
    /\ HasInactive(last.name)
    /\ trees[set_map][last.name] # NoSet

\* C6: after create, drop (or unmap and clear) and a completed vacuum, a
\* create of the same name returns Ok and the name is active again.
C6_RecreateAfterVacuum ==
    (last.op = "create" /\ last.was \in {"vac_dropped", "vac_cleared"})
        => (last.res = "Ok" /\ take_set(last.name) # NoSet)
C6_Witness ==
    /\ last.op = "create"
    /\ last.was = "vac_dropped"
    /\ last.res = "Ok"
    /\ take_set(last.name) # NoSet

\* C7: list(prefix) returns exactly the active names that start with the
\* prefix, each of them once.
C7_ListExact ==
    last.op = "list"
        => /\ NoDuplicates(last.out)
           /\ Range(last.out) =
                  {n \in Names : /\ Len(last.name) <= Len(n)
                                 /\ SubSeq(n, 1, Len(last.name)) = last.name
                                 /\ HasActive(n)}
C7_Witness ==
    /\ last.op = "list"
    /\ last.name = <<"b">>
    /\ last.out = << <<"b">> >>
    /\ HasInactive(<<"b", "a">>)

\* C9 as stated: on a fresh manager, after create(hot), create(cold),
\* vacuum and add_keys(hot, [x]), the next list_cold returns exactly cold.
C9_ColdAfterFirstSweep ==
    scen.st = 5 => last.out = <<scen.cold>>
\* C9: on a fresh manager, after create(hot), create(cold), vacuum, one
\* list_cold (which returns nothing and clears the hot flags both sets were
\* created with) and add_keys(hot, [x]), the next list_cold returns exactly
\* cold.
C9_ColdAfterSecondSweep ==
    /\ scen.st = 13 => last.out = <<>>
    /\ scen.st = 15 => last.out = <<scen.cold>>
C9_Witness ==
    /\ scen.st = 15
    /\ last.op = "list_cold"
    /\ last.out = <<scen.cold>>
    /\ scen.hot # scen.cold

\* C10: clear does not remove the on-disk state: after add_keys, unmap,
\* clear, vacuum and create, size returns what it returned before the clear.
C10_ClearKeepsData ==
    (last.op = "size" /\ last.was = "reloaded")
        => last.num = life[last.name].size
C10_Witness ==
    /\ last.op = "size"
    /\ last.was = "reloaded"
    /\ last.num = 1
    /\ life[last.name].size = 1

(***************************************************************************)
(* Spec: client threads and the vacuum thread, interleaved at their reads  *)
(* and writes of mgr->set_map, mgr->primary_vsn, mgr->vsn, mgr->delta,     *)
(* mgr->pending_deletes, the client rows and the wrappers.                 *)
(***************************************************************************)
TakeOps4 == {"add_keys", "size", "flush", "unmap"}
Mutators == {"create", "drop", "clear"}
ConcOps == TakeOps4 \cup Mutators \cup {"list"}

\* a drop of the name returned and the vacuum thread has not finished
\* reclaiming the wrapper and clearing the pending list
DropPending(n) ==
    \E w \in Wrappers :
        /\ wr[w].name = n
        /\ wr[w].should_delete
        /\ ~wr[w].is_active
        /\ \/ wr[w].st = "live"
           \/ wr[w].st = "freed" /\ n \in pending_deletes

\* the delta nodes that are allocated: on the list, or unlinked and not
\* freed yet.  A node is named by its version.
Linked(v) == \E i \in 1..Len(delta) : delta[i].vsn = v
Allocated(v) == Linked(v) \/ \E i \in 1..Len(vac.old) : vac.old[i].vsn = v
NodeAt(v) ==
    IF Linked(v) THEN delta[CHOOSE i \in 1..Len(delta) : delta[i].vsn = v]
    ELSE vac.old[CHOOSE i \in 1..Len(vac.old) : vac.old[i].vsn = v]
\* current->next
NextOf(v) ==
    LET chain == IF Linked(v) THEN delta ELSE vac.old
        i == CHOOSE j \in 1..Len(chain) : chain[j].vsn = v
    IN  IF i < Len(chain) THEN chain[i + 1].vsn ELSE NoNode

\* the call returns
Ret(rec, res) == [rec EXCEPT !.pc = "ret", !.res = res, !.w = NoSet, !.cur = NoNode]

\* setmgr_client_checkpoint: a registered thread publishes mgr->vsn; an
\* unregistered one reads mgr->vsn into a new row before it links the row
Checkpoint(c) ==
    /\ cl[c].pc = "idle"
    /\ IF clients[c] # NoRow
       THEN /\ clients' = [clients EXCEPT ![c] = vsn]
            /\ UNCHANGED cl
       ELSE /\ cl' = [cl EXCEPT ![c].pc = "reg", ![c].v = vsn]
            /\ UNCHANGED clients
    /\ UNCHANGED <<vsn, primary_vsn, set_map, trees, delta, pending_deletes, write_lock,
                   wr, disk, vac, crashed, last, life, scen, cold, counters, should_run>>

\* setmgr_client_checkpoint, the critical section that links the new row
Register(c) ==
    /\ cl[c].pc = "reg"
    /\ clients' = [clients EXCEPT ![c] = cl[c].v]
    /\ cl' = [cl EXCEPT ![c] = IdleClient]
    /\ UNCHANGED <<vsn, primary_vsn, set_map, trees, delta, pending_deletes, write_lock,
                   wr, disk, vac, crashed, last, life, scen, cold, counters, should_run>>

\* the model has room for one more version
Room == vsn + 1 <= MaxVsn

\* What the caller of find_set does with the wrapper w it returned (NoSet
\* for NULL): take_set and the body of drop and clear, the test of create.
FindDone(c, rec, w) ==
    IF rec.op \in TakeOps4
    THEN /\ cl' = [cl EXCEPT ![c] = IF take_check(w) # NoSet
                                    THEN [rec EXCEPT !.pc = "use", !.w = w, !.cur = NoNode]
                                    ELSE Ret(rec, "NotFound")]
         /\ UNCHANGED <<wr, delta, vsn, write_lock>>
    ELSE IF rec.op = "create"
    THEN IF w # NoSet
         THEN /\ cl' = [cl EXCEPT ![c] = Ret(rec, IF wr[w].is_active THEN "AlreadyExists"
                                                   ELSE "DeleteInProgress")]
              /\ write_lock' = "free"
              /\ UNCHANGED <<wr, delta, vsn>>
         ELSE /\ cl' = [cl EXCEPT ![c] = [rec EXCEPT !.pc = "pend", !.cur = NoNode]]
              /\ UNCHANGED <<wr, delta, vsn, write_lock>>
    ELSE IF take_check(w) = NoSet
    THEN /\ cl' = [cl EXCEPT ![c] = Ret(rec, "NotFound")]
         /\ write_lock' = "free"
         /\ UNCHANGED <<wr, delta, vsn>>
    ELSE IF rec.op = "clear" /\ ~hset_is_proxied(wr[w])
    THEN /\ cl' = [cl EXCEPT ![c] = Ret(rec, "NotProxied")]
         /\ write_lock' = "free"
         /\ UNCHANGED <<wr, delta, vsn>>
    ELSE /\ Room
         /\ wr' = [wr EXCEPT ![w].is_active = FALSE,
                             ![w].should_delete = (rec.op = "drop")]
         /\ delta' = create_delta_update(Delete, w)
         /\ vsn' = vsn + 1
         /\ write_lock' = "free"
         /\ cl' = [x \in Clients |->
                     IF x = c THEN Ret(rec, "Ok")
                     ELSE IF cl[x].name = wr[w].name THEN [cl[x] EXCEPT !.since = FALSE]
                     ELSE cl[x]]

\* A call begins: create, drop and clear take mgr->write_lock; find_set
\* reads mgr->set_map and searches that tree; setmgr_list_sets reads
\* mgr->set_map and iterates that tree.
Start(c, op, n) ==
    /\ cl[c].pc = "idle"
    /\ clients[c] # NoRow
    /\ op \in Mutators => write_lock = "free"
    /\ LET rec == [IdleClient EXCEPT !.op = op, !.name = n,
                                     !.since = (op # "list" /\ HasActive(n)),
                                     !.win = (op = "create" /\ DropPending(n))]
           w   == art_search(trees[set_map], n)
       IN  IF op = "list"
           THEN /\ cl' = [cl EXCEPT ![c] = [rec EXCEPT !.pc = "find2",
                                               !.out = list_tree(trees[set_map], n, 1)]]
                /\ UNCHANGED <<wr, delta, vsn, write_lock>>
           ELSE IF w # NoSet
           THEN FindDone(c, rec, w)
           ELSE /\ cl' = [cl EXCEPT ![c] = [rec EXCEPT !.pc = "find2"]]
                /\ write_lock' = IF op \in Mutators THEN c ELSE write_lock
                /\ UNCHANGED <<wr, delta, vsn>>
    /\ UNCHANGED <<primary_vsn, set_map, trees, pending_deletes, clients, disk, vac,
                   crashed, last, life, scen, cold, counters, should_run>>

\* find_set and setmgr_list_sets: "if (mgr->primary_vsn == mgr->vsn)" and
\* the read of mgr->delta
Find2(c) ==
    /\ cl[c].pc = "find2"
    /\ IF primary_vsn = vsn \/ delta = <<>>
       THEN IF cl[c].op = "list"
            THEN /\ cl' = [cl EXCEPT ![c] = Ret(cl[c], "Ok")]
                 /\ UNCHANGED <<wr, delta, vsn, write_lock>>
            ELSE FindDone(c, cl[c], NoSet)
       ELSE /\ cl' = [cl EXCEPT ![c].pc = "walk", ![c].cur = delta[1].vsn]
            /\ UNCHANGED <<wr, delta, vsn, write_lock>>
    /\ UNCHANGED <<primary_vsn, set_map, trees, pending_deletes, clients, disk, vac,
                   crashed, last, life, scen, cold, counters, should_run>>

\* one iteration of the delta walk of find_set or setmgr_list_sets
Walk(c) ==
    /\ cl[c].pc = "walk"
    /\ Allocated(cl[c].cur)
    /\ LET e == NodeAt(cl[c].cur)
           nxt == NextOf(cl[c].cur)
       IN  IF cl[c].op = "list"
           THEN LET rec == [cl[c] EXCEPT !.out = @ \o list_step(e, cl[c].name)]
                IN  /\ cl' = [cl EXCEPT ![c] =
                                IF e.vsn = primary_vsn + 1 \/ nxt = NoNode
                                THEN Ret(rec, "Ok")
                                ELSE [rec EXCEPT !.cur = nxt]]
                    /\ UNCHANGED <<wr, delta, vsn, write_lock>>
           ELSE LET r == find_step(e, cl[c].name, primary_vsn)
                IN  IF r = "match" THEN FindDone(c, cl[c], e.set)
                    ELSE IF r = "stop" \/ nxt = NoNode THEN FindDone(c, cl[c], NoSet)
                    ELSE /\ cl' = [cl EXCEPT ![c].cur = nxt]
                         /\ UNCHANGED <<wr, delta, vsn, write_lock>>
    /\ UNCHANGED <<primary_vsn, set_map, trees, pending_deletes, clients, disk, vac,
                   crashed, last, life, scen, cold, counters, should_run>>

\* setmgr_create_set after find_set returned NULL: the scan of
\* mgr->pending_deletes, add_set and the unlock
PendAdd(c) ==
    /\ cl[c].pc = "pend"
    /\ LET n == cl[c].name
       IN  IF n \in pending_deletes
           THEN /\ cl' = [cl EXCEPT ![c] = Ret(cl[c], "DeleteInProgress")]
                /\ UNCHANGED <<wr, disk, delta, vsn>>
           ELSE /\ FreeSlots(MaxSets) # {}
                /\ Room
                /\ LET id == NextSlot(MaxSets)
                       a  == add_set(n, FALSE, TRUE)
                   IN  /\ disk' = [disk EXCEPT ![n] = a.d]
                       /\ IF a.res # 0
                          THEN /\ cl' = [cl EXCEPT ![c] = Ret(cl[c], "Internal")]
                               /\ UNCHANGED <<wr, delta, vsn>>
                          ELSE /\ wr' = [wr EXCEPT ![id] = a.s]
                               /\ delta' = create_delta_update(Create, id)
                               /\ vsn' = vsn + 1
                               /\ cl' = [cl EXCEPT ![c] = Ret(cl[c], "Ok")]
    /\ write_lock' = "free"
    /\ UNCHANGED <<primary_vsn, set_map, trees, pending_deletes, clients, vac,
                   crashed, last, life, scen, cold, counters, should_run>>

\* add_keys, size, flush and unmap on the wrapper take_set returned
Use(c, keys) ==
    /\ cl[c].pc = "use"
    /\ wr[cl[c].w].st = "live"
    /\ keys # <<>> => cl[c].op = "add_keys"
    /\ LET w == cl[c].w
           n == wr[w].name
           r == IF cl[c].op = "add_keys" THEN setmgr_set_keys(wr[w], disk[n], keys)
                ELSE IF cl[c].op = "flush" THEN hset_flush(wr[w], disk[n])
                ELSE IF cl[c].op = "unmap" THEN setmgr_unmap_set(wr[w], disk[n])
                ELSE [s |-> wr[w], d |-> disk[n]]
       IN  /\ wr' = [wr EXCEPT ![w] = r.s]
           /\ disk' = [disk EXCEPT ![n] = r.d]
           /\ cl' = [cl EXCEPT ![c] =
                        Ret(cl[c], IF cl[c].op = "add_keys" THEN r.res ELSE "Ok")]
    /\ UNCHANGED <<vsn, primary_vsn, set_map, trees, delta, pending_deletes, clients,
                   write_lock, vac, crashed, last, life, scen, cold, counters, should_run>>

\* the caller has the result
Return(c) ==
    /\ cl[c].pc = "ret"
    /\ cl' = [cl EXCEPT ![c] = IdleClient]
    /\ UNCHANGED <<vsn, primary_vsn, set_map, trees, delta, pending_deletes, clients,
                   write_lock, wr, disk, vac, crashed, last, life, scen, cold, counters, should_run>>

(***************************************************************************)
(* The vacuum thread, setmgr_thread_main.                                  *)
(***************************************************************************)
\* a loop without the special case
NeverOnlyBarrier == FALSE
\* "we are 1 version behind and the only delta is a barrier"
OnlyBarrier == vsn - primary_vsn = 1 /\ delta # <<>> /\ delta[1].type = Barrier

\* the special case: under mgr->write_lock, primary_vsn = mgr_vsn
VacCatchUp ==
    /\ vac.pc = "idle"
    /\ should_run
    /\ vsn # primary_vsn
    /\ OnlyBarrier
    /\ write_lock = "free"
    /\ primary_vsn' = vsn
    /\ UNCHANGED <<vsn, set_map, trees, delta, pending_deletes, clients, write_lock,
                   wr, disk, cl, vac, crashed, last, life, scen, cold, counters, should_run>>

\* client_min_vsn, merge_old_versions into the alternate tree and
\* mark_pending_deletes
VacStart ==
    /\ vac.pc = "idle"
    /\ should_run
    /\ vsn # primary_vsn
    /\ delta # <<>>
    /\ vsn - primary_vsn = 1 => (write_lock = "free" /\ ~OnlyBarrier)
    /\ LET m == client_min_vsn
       IN  /\ trees' = [trees EXCEPT ![alt_set_map] =
                            merge_old_versions(trees[alt_set_map], delta, 1, m)]
           /\ pending_deletes' = mark_pending_deletes(delta, m)
           /\ vac' = [vac EXCEPT !.pc = "swap1", !.min_vsn = m]
    /\ UNCHANGED <<vsn, primary_vsn, set_map, delta, clients, write_lock, wr, disk, cl,
                   crashed, last, life, scen, cold, counters, should_run>>

\* swap_set_maps: mgr->set_map = mgr->alt_set_map
VacSwapMap ==
    /\ vac.pc = "swap1"
    /\ set_map' = alt_set_map
    /\ vac' = [vac EXCEPT !.pc = "swap2"]
    /\ UNCHANGED <<vsn, primary_vsn, trees, delta, pending_deletes, clients, write_lock,
                   wr, disk, cl, crashed, last, life, scen, cold, counters, should_run>>

\* swap_set_maps: mgr->primary_vsn = primary_vsn
VacSwapVsn ==
    /\ vac.pc = "swap2"
    /\ primary_vsn' = vac.min_vsn
    /\ vac' = [vac EXCEPT !.pc = "barrier"]
    /\ UNCHANGED <<vsn, set_map, trees, delta, pending_deletes, clients, write_lock,
                   wr, disk, cl, crashed, last, life, scen, cold, counters, should_run>>

\* version_barrier: the BARRIER delta, created under mgr->write_lock
VacBarrier ==
    /\ vac.pc = "barrier"
    /\ write_lock = "free"
    /\ Room
    /\ delta' = create_delta_update(Barrier, NoSet)
    /\ vsn' = vsn + 1
    /\ vac' = [vac EXCEPT !.pc = "wait", !.barrier = vsn + 1]
    /\ UNCHANGED <<primary_vsn, set_map, trees, pending_deletes, clients, write_lock,
                   wr, disk, cl, crashed, last, life, scen, cold, counters, should_run>>

\* a wait that only the clients can end
barrier_wait_clients == client_min_vsn < vac.barrier
\* version_barrier: "while (mgr->should_run && client_min_vsn(mgr) < vsn)"
barrier_wait == should_run /\ client_min_vsn < vac.barrier

\* a cycle that goes from the wait to delete_old_versions without the
\* second merge_old_versions
VacSkipMerge ==
    /\ vac.pc = "wait"
    /\ ~barrier_wait
    /\ vac' = [vac EXCEPT !.pc = "unlink"]
    /\ UNCHANGED <<vsn, primary_vsn, set_map, trees, delta, pending_deletes, clients,
                   write_lock, wr, disk, cl, crashed, last, life, scen, cold, counters,
                   should_run>>

\* version_barrier: the wait is over; merge_old_versions into the tree
\* that was the primary one
VacMerge ==
    /\ vac.pc = "wait"
    /\ ~barrier_wait
    /\ trees' = [trees EXCEPT ![alt_set_map] =
                     merge_old_versions(trees[alt_set_map], delta, 1, vac.min_vsn)]
    /\ vac' = [vac EXCEPT !.pc = "unlink"]
    /\ UNCHANGED <<vsn, primary_vsn, set_map, delta, pending_deletes, clients,
                   write_lock, wr, disk, cl, crashed, last, life, scen, cold, counters, should_run>>

\* delete_old_versions: remove_delta_versions under mgr->write_lock
VacUnlink ==
    /\ vac.pc = "unlink"
    /\ write_lock = "free"
    /\ LET keep == remove_delta_versions(delta, vac.min_vsn)
       IN  /\ delta' = SubSeq(delta, 1, keep)
           /\ vac' = [vac EXCEPT !.pc = "reclaim",
                                 !.old = SubSeq(delta, keep + 1, Len(delta))]
    /\ UNCHANGED <<vsn, primary_vsn, set_map, trees, pending_deletes, clients,
                   write_lock, wr, disk, cl, crashed, last, life, scen, cold, counters, should_run>>

\* delete_old_versions: one iteration of the loop over the unlinked nodes
VacReclaim ==
    /\ vac.pc = "reclaim"
    /\ vac.old # <<>>
    /\ LET r == delete_old_list(wr, disk, <<vac.old[1]>>, 1)
       IN  /\ wr' = r.wr
           /\ disk' = r.disk
    /\ vac' = [vac EXCEPT !.old = Tail(vac.old)]
    /\ UNCHANGED <<vsn, primary_vsn, set_map, trees, delta, pending_deletes, clients,
                   write_lock, cl, crashed, last, life, scen, cold, counters, should_run>>

\* clear_pending_deletes, and back to the top of the loop
VacClear ==
    /\ vac.pc = "reclaim"
    /\ vac.old = <<>>
    /\ pending_deletes' = {}
    /\ vac' = IdleVacuum
    /\ cl' = [c \in Clients |-> [cl[c] EXCEPT !.win = FALSE]]
    /\ UNCHANGED <<vsn, primary_vsn, set_map, trees, delta, clients, write_lock, wr,
                   disk, crashed, last, life, scen, cold, counters, should_run>>

ConcPrefixes == {<<>>}
\* Worker is a connection-handling thread; Background is one of the threads
\* of background.c, which list the sets and flush or unmap each of them.
Worker == "c1"
Background == "c2"
WorkerOps == {"create", "drop", "clear", "add_keys", "size"}
BackgroundOps == {"flush", "unmap"}

Next ==
    \/ \E c \in Clients : Checkpoint(c)
    \/ \E c \in Clients : Register(c)
    \/ \E op \in WorkerOps, n \in ConcNames : Start(Worker, op, n)
    \/ \E op \in BackgroundOps, n \in ConcNames : Start(Background, op, n)
    \/ \E p \in ConcPrefixes : Start(Background, "list", p)
    \/ \E c \in Clients : Find2(c)
    \/ \E c \in Clients : Walk(c)
    \/ \E c \in Clients : PendAdd(c)
    \/ \E c \in Clients, keys \in KeySeqs(ConcMaxKeys) : Use(c, keys)
    \/ \E c \in Clients : Return(c)
    \/ VacCatchUp
    \/ VacStart
    \/ VacSwapMap
    \/ VacSwapVsn
    \/ VacBarrier
    \/ VacMerge
    \/ VacUnlink
    \/ VacReclaim
    \/ VacClear

Spec == init_set_manager /\ [][Next]_vars

(***************************************************************************)
(* Properties of the interleaved runs.                                     *)
(***************************************************************************)
\* the wrapper is reachable from the primary tree or from the delta list
InDirectory(w) ==
    \/ \E n \in Names : trees[set_map][n] = w
    \/ \E i \in 1..Len(delta) : delta[i].type # Barrier /\ delta[i].set = w

\* C1: when every client thread checkpoints before its calls and holds no
\* pointer across a checkpoint, the wrapper a call in flight obtained is
\* never closed, deleted or freed by the vacuum thread, and the delta node
\* its walk stands on is never unlinked.
C1_NoReclaimUnderClient ==
    \A c \in Clients :
        /\ cl[c].w # NoSet => wr[cl[c].w].st = "live"
        /\ cl[c].cur # NoNode => Linked(cl[c].cur)
\* a call holds a wrapper that was dropped under it, while the vacuum
\* thread waits on its barrier with the DELETE on the list
C1_Witness ==
    \E c \in Clients :
        /\ cl[c].pc = "use"
        /\ ~wr[cl[c].w].is_active
        /\ vac.pc = "wait"
        /\ clients[c] < vac.barrier
\* C2: from the moment drop(name) returned Ok until the vacuum thread has
\* reclaimed the wrapper and cleared the pending list, every create(name)
\* returns DeleteInProgress.
C2_CreateDuringDelete ==
    \A c \in Clients :
        (cl[c].pc = "ret" /\ cl[c].op = "create" /\ cl[c].win)
            => cl[c].res = "DeleteInProgress"

\* C3: no two distinct wrappers of the same name are reachable from the
\* primary tree or the delta list, and a create of a name that has an
\* active wrapper returns AlreadyExists.
C3_OneWrapperPerName ==
    /\ \A w1, w2 \in Wrappers :
          (InDirectory(w1) /\ InDirectory(w2) /\ wr[w1].name = wr[w2].name) => w1 = w2
    /\ \A c \in Clients :
          (cl[c].pc = "ret" /\ cl[c].op = "create" /\ cl[c].since)
              => cl[c].res = "AlreadyExists"

\* C4: add_keys, size, flush and unmap on the name of a set that was
\* created and has been neither dropped nor cleared never return NotFound.
C4_ActiveSetIsFound ==
    \A c \in Clients :
        (cl[c].pc = "ret" /\ cl[c].op \in TakeOps4 /\ cl[c].since)
            => cl[c].res # "NotFound"

(***************************************************************************)
(* SpecCold: setmgr_set_keys on one thread against the sweep of            *)
(* setmgr_list_cold_sets on the unmap thread.  The callback reads is_hot   *)
(* and clears it in two steps; the adder writes is_hot after its keys.     *)
(* cold.touched holds the wrappers on which an add_keys finished (wrote    *)
(* is_hot = 1, its last statement) since the sweeper last read their       *)
(* is_hot; cold.viol the names a sweep emitted for a wrapper that was in   *)
(* cold.touched when the sweep read its is_hot.                            *)
(***************************************************************************)
ColdQuiet == cold.pc = "idle" /\ cold.adder = "idle"

\* setmgr_create_set of a file-backed set
ColdCreate(n) ==
    /\ create_set(n, FALSE, "Ok")
    /\ UNCHANGED <<primary_vsn, set_map, trees, pending_deletes, clients, write_lock,
                   cl, vac, crashed, last, life, scen, cold, counters, should_run>>

\* setmgr_vacuum, with no other thread inside the manager
ColdVacuum ==
    /\ ColdQuiet
    /\ delta # <<>>
    /\ setmgr_vacuum
    /\ UNCHANGED <<vsn, pending_deletes, clients, write_lock, cl, vac, crashed, last,
                   life, scen, cold, counters, should_run>>

\* the unmap thread unmaps between its sweeps
ColdUnmap(n) ==
    /\ cold.pc = "idle"
    /\ take_set(n) # NoSet
    /\ LET w == take_set(n)
           u == setmgr_unmap_set(wr[w], disk[n])
       IN  /\ wr' = [wr EXCEPT ![w] = u.s]
           /\ disk' = [disk EXCEPT ![n] = u.d]
    /\ UNCHANGED <<vsn, primary_vsn, set_map, trees, delta, pending_deletes, clients,
                   write_lock, cl, vac, crashed, last, life, scen, cold, counters, should_run>>

\* setmgr_list_cold_sets: art_iter over mgr->set_map begins
SweepStart ==
    /\ cold.pc = "idle"
    /\ cold' = [cold EXCEPT !.pc = "check", !.i = 1, !.out = <<>>]
    /\ UNCHANGED <<vsn, primary_vsn, set_map, trees, delta, pending_deletes, clients,
                   write_lock, wr, disk, cl, vac, crashed, last, life, scen, counters, should_run>>

\* set_map_list_cold_cb on the i-th key: the read of is_hot, and for a
\* set that is not hot the rest of the callback
SweepCheck ==
    /\ cold.pc = "check"
    /\ cold.i <= Len(NameOrder)
    /\ LET n == NameOrder[cold.i]
           w == trees[set_map][n]
       IN  IF w = NoSet THEN cold' = [cold EXCEPT !.i = @ + 1]
           ELSE IF list_cold_cb(wr[w]) = "hot"
           THEN cold' = [cold EXCEPT !.pc = "clear", !.touched = @ \ {w}]
           ELSE IF list_cold_cb(wr[w]) = "proxied"
           THEN cold' = [cold EXCEPT !.i = @ + 1, !.touched = @ \ {w}]
           ELSE cold' = [cold EXCEPT !.i = @ + 1, !.out = <<n>> \o @,
                            !.touched = @ \ {w},
                            !.viol = IF w \in cold.touched THEN @ \cup {n} ELSE @]
    /\ UNCHANGED <<vsn, primary_vsn, set_map, trees, delta, pending_deletes, clients,
                   write_lock, wr, disk, cl, vac, crashed, last, life, scen, counters, should_run>>

\* set_map_list_cold_cb: "set->is_hot = 0"
SweepClear ==
    /\ cold.pc = "clear"
    /\ wr' = [wr EXCEPT ![trees[set_map][NameOrder[cold.i]]].is_hot = FALSE]
    /\ cold' = [cold EXCEPT !.pc = "check", !.i = @ + 1]
    /\ UNCHANGED <<vsn, primary_vsn, set_map, trees, delta, pending_deletes, clients,
                   write_lock, disk, cl, vac, crashed, last, life, scen, counters, should_run>>

\* setmgr_list_cold_sets returns the list
SweepEnd ==
    /\ cold.pc = "check"
    /\ cold.i > Len(NameOrder)
    /\ cold' = [cold EXCEPT !.pc = "idle", !.i = 0, !.out = <<>>]
    /\ UNCHANGED <<vsn, primary_vsn, set_map, trees, delta, pending_deletes, clients,
                   write_lock, wr, disk, cl, vac, crashed, last, life, scen, counters, should_run>>

\* setmgr_set_keys: take_set
AddTake(n) ==
    /\ cold.adder = "idle"
    /\ take_set(n) # NoSet
    /\ cold' = [cold EXCEPT !.adder = "add", !.aw = take_set(n)]
    /\ UNCHANGED <<vsn, primary_vsn, set_map, trees, delta, pending_deletes, clients,
                   write_lock, wr, disk, cl, vac, crashed, last, life, scen, counters, should_run>>

\* setmgr_set_keys: the loop of hset_add
AddKeys(keys) ==
    /\ cold.adder = "add"
    /\ LET w == cold.aw
           a == set_keys_loop(wr[w], disk[wr[w].name], keys, 1)
       IN  /\ wr' = [wr EXCEPT ![w] = a.s]
           /\ disk' = [disk EXCEPT ![wr[w].name] = a.d]
    /\ cold' = [cold EXCEPT !.adder = "hot"]
    /\ UNCHANGED <<vsn, primary_vsn, set_map, trees, delta, pending_deletes, clients,
                   write_lock, cl, vac, crashed, last, life, scen, counters, should_run>>

\* setmgr_set_keys: "set->is_hot = 1", and the return
AddHot ==
    /\ cold.adder = "hot"
    /\ wr' = [wr EXCEPT ![cold.aw] = mark_hot(@)]
    /\ cold' = [cold EXCEPT !.adder = "idle", !.aw = NoSet,
                            !.touched = @ \cup {cold.aw}]
    /\ UNCHANGED <<vsn, primary_vsn, set_map, trees, delta, pending_deletes, clients,
                   write_lock, disk, cl, vac, crashed, last, life, scen, counters, should_run>>

ColdNext ==
    \/ \E n \in Names : ColdCreate(n)
    \/ ColdVacuum
    \/ \E n \in Names : ColdUnmap(n)
    \/ SweepStart
    \/ SweepCheck
    \/ SweepClear
    \/ SweepEnd
    \/ \E n \in Names : AddTake(n)
    \/ \E keys \in KeySeqs(MaxKeys) : AddKeys(keys)
    \/ AddHot

SpecCold == init_set_manager /\ [][ColdNext]_vars

\* C8: list_cold never returns a set on which an add_keys finished since
\* the previous list_cold looked at the set's hot flag, in every
\* interleaving of add_keys with the sweep's check and clear of the flag.
C8_NoRecentlyWrittenCold == cold.viol = {}

(***************************************************************************)
(* SpecRestart: the API called one call at a time by one thread, which may *)
(* destroy the manager and initialise a new one on the same data_dir.      *)
(* cl[Worker].pc is "destroyed" between the two calls.                     *)
(***************************************************************************)
Up == cl[Worker].pc = "idle" /\ ~crashed

\* destroy_set_manager: art_iter(mgr->set_map, set_map_delete_cb) from the
\* i-th name on: [wr, disk]
RECURSIVE destroy_tree(_, _, _, _)
destroy_tree(W, D, tree, i) ==
    IF i > Len(NameOrder) THEN [wr |-> W, disk |-> D]
    ELSE LET w == tree[NameOrder[i]]
         IN  IF w = NoSet THEN destroy_tree(W, D, tree, i + 1)
             ELSE LET r == delete_set(W, D, w)
                  IN  destroy_tree(r.wr, r.disk, tree, i + 1)

\* destroy_set_manager: the loop over mgr->delta, which cleans up the sets
\* of the CREATE entries only: [wr, disk]
RECURSIVE destroy_delta(_, _, _, _)
destroy_delta(W, D, log, i) ==
    IF i > Len(log) THEN [wr |-> W, disk |-> D]
    ELSE IF log[i].type = Create
         THEN LET r == delete_set(W, D, log[i].set)
              IN  destroy_delta(r.wr, r.disk, log, i + 1)
         ELSE destroy_delta(W, D, log, i + 1)

\* what a destroy leaves of each name: "kept" with its size for a
\* file-backed set that is active, "gone" for one that was dropped
LifeAtDestroy ==
    [n \in Names |->
        IF HasActive(n)
        THEN (IF wr[take_set(n)].in_memory THEN [ph |-> "memory", size |-> 0]
              ELSE [ph |-> "kept", size |-> hset_size(wr[take_set(n)])])
        ELSE IF life[n].ph \in {"dropped", "vac_dropped", "gone"}
        THEN [ph |-> "gone", size |-> 0]
        ELSE [ph |-> "none", size |-> 0]]

\* destroy_set_manager (no vacuum thread to join)
RsDestroy ==
    /\ Up
    /\ LET t == destroy_tree(wr, disk, trees[set_map], 1)
           r == destroy_delta(t.wr, t.disk, delta, 1)
       IN  /\ wr' = r.wr
           /\ disk' = r.disk
    /\ delta' = <<>>
    /\ trees' = [t \in {0, 1} |-> EmptyTree]
    /\ cl' = [cl EXCEPT ![Worker].pc = "destroyed"]
    /\ last' = [NoCall EXCEPT !.op = "destroy"]
    /\ life' = LifeAtDestroy
    /\ scen' = [st |-> -1, hot |-> <<>>, cold |-> <<>>]
    /\ UNCHANGED <<vsn, primary_vsn, set_map, pending_deletes, clients, write_lock,
                   vac, crashed, cold, counters, should_run>>

\* load_existing_sets: add_set(mgr, set_name, mgr->config, 0, 0) for the
\* folder of every name from the i-th on: [wr, tree]
RECURSIVE load_existing_sets(_, _, _)
load_existing_sets(W, tree, i) ==
    IF i > Len(NameOrder) THEN [wr |-> W, tree |-> tree]
    ELSE LET n    == NameOrder[i]
             free == {w \in 1..SeqMaxSets : W[w].st = "unused"}
             id   == CHOOSE w \in free : \A x \in free : w <= x
             a    == add_set(n, FALSE, FALSE)
         IN  IF ~disk[n].dir \/ free = {} \/ a.res # 0
             THEN load_existing_sets(W, tree, i + 1)
             ELSE load_existing_sets([W EXCEPT ![id] = a.s],
                                     art_insert(tree, n, id), i + 1)

\* init_set_manager(config, 0, &mgr) on the data_dir the destroyed manager
\* left: the freed wrappers are memory calloc may hand out again
RsInit ==
    /\ cl[Worker].pc = "destroyed"
    /\ ~crashed
    /\ LET W == [w \in Wrappers |-> IF wr[w].st = "live" THEN wr[w] ELSE Unused]
           l == load_existing_sets(W, EmptyTree, 1)
       IN  /\ wr' = l.wr
           /\ trees' = [t \in {0, 1} |-> l.tree]
    /\ vsn' = 0
    /\ primary_vsn' = 0
    /\ set_map' = 0
    /\ delta' = <<>>
    /\ pending_deletes' = {}
    /\ clients' = [c \in Clients |-> NoRow]
    /\ cl' = [cl EXCEPT ![Worker].pc = "idle"]
    /\ last' = [NoCall EXCEPT !.op = "restart"]
    /\ UNCHANGED <<write_lock, disk, vac, crashed, life, scen, cold, counters, should_run>>

RsCreate(n, im) == Up /\ SeqCreate(n, im)
RsDrop(n) == Up /\ SeqDrop(n)
RsVacuum == Up /\ delta # <<>> /\ SeqVacuum
RsAddKeys(n, keys) == Up /\ SeqAddKeys(n, keys)
RsUnmap(n) == Up /\ SeqUnmap(n)
RsSize(n) == Up /\ SeqSize(n)
RsList == Up /\ SeqList(<<>>)

RsNext ==
    \/ \E n \in Names, im \in BOOLEAN : RsCreate(n, im)
    \/ \E n \in Names : RsDrop(n)
    \/ RsVacuum
    \/ \E n \in Names, keys \in KeySeqs(MaxKeys) : RsAddKeys(n, keys)
    \/ \E n \in Names : RsUnmap(n)
    \/ \E n \in Names : RsSize(n)
    \/ RsList
    \/ RsDestroy
    \/ RsInit

SpecRestart == init_set_manager /\ [][RsNext]_vars

(***************************************************************************)
(* Properties of the runs with a restart.                                  *)
(***************************************************************************)
\* C11: drop is permanent.  The folder of a dropped set is still there
\* while its wrapper is not reclaimed, it is deleted once the vacuum or the
\* destroy reclaimed the wrapper, a set created again under the name has
\* size 0, and a manager initialised again does not list the name.
C11_DropIsPermanent ==
    /\ \A w \in Wrappers :
          (wr[w].st = "live" /\ wr[w].should_delete) => disk[wr[w].name].dir
    /\ \A n \in Names :
          (life[n].ph \in {"vac_dropped", "gone"} /\ ~HasActive(n))
              => (disk[n] = NoDir /\ ~HasInactive(n))
    /\ (last.op = "create" /\ last.was \in {"vac_dropped", "gone"} /\ last.res = "Ok")
          => hset_size(wr[take_set(last.name)]) = 0
    /\ last.op = "restart"
          => \A n \in Names :
                life[n].ph = "gone"
                    => (find_set(n) = NoSet /\ n \notin Range(setmgr_list_sets(<<>>)))
\* a set dropped before the restart is created again after it
C11_Witness ==
    /\ last.op = "create"
    /\ last.was = "gone"
    /\ last.res = "Ok"
    /\ hset_size(wr[take_set(last.name)]) = 0
    /\ ~wr[take_set(last.name)].in_memory

\* C12: a file-backed set that is active when the manager is destroyed is
\* there again after init_set_manager on the same data_dir: it is found, it
\* is listed, and its size is the size it had before the destroy.
C12_RestartKeepsSets ==
    last.op = "restart"
        => \A n \in Names :
              life[n].ph = "kept"
                  => /\ take_set(n) # NoSet
                     /\ n \in Range(setmgr_list_sets(<<>>))
                     /\ hset_size(wr[take_set(n)]) = life[n].size
\* a set with one key survived the restart
C12_Witness ==
    /\ last.op = "restart"
    /\ \E n \in Names :
          /\ life[n].ph = "kept"
          /\ life[n].size = 1
          /\ take_set(n) # NoSet
          /\ hset_size(wr[take_set(n)]) = 1

(***************************************************************************)
(* SpecSet: one hlld_set used directly through set.h, as tests/test_set.c  *)
(* does: wr[1] is the object, disk[SetName] its folder.  life[SetName]     *)
(* remembers the size at the last page-out, last the call just made.       *)
(***************************************************************************)
SetName == NameOrder[1]
SetOpened == wr[1].st = "live"
SetUnchanged ==
    UNCHANGED <<vsn, primary_vsn, set_map, trees, delta, pending_deletes, clients,
                write_lock, cl, vac, crashed, scen, cold, should_run>>
SetCall(op, res, num) ==
    [op |-> op, name |-> SetName, res |-> res, num |-> num, out |-> <<>>,
     was |-> life[SetName].ph]

\* init_set(config, SetName, discover, &set) with config->in_memory = im
SetOpen(discover, im) ==
    /\ ~SetOpened
    /\ LET r == init_set([Unused EXCEPT !.st = "live", !.name = SetName],
                         disk[SetName], im, discover)
       IN  /\ wr' = [wr EXCEPT ![1] = r.s]
           /\ disk' = [disk EXCEPT ![SetName] = r.d]
           /\ last' = SetCall(IF discover THEN "open_discover" ELSE "open_proxied",
                              "Ok", life[SetName].size)
    /\ life' = [life EXCEPT ![SetName].ph = "open"]
    /\ counters' = [counters EXCEPT ![1] = 0]
    /\ SetUnchanged

\* a counter that is not advanced
sets_same(n) == n
\* hset_add: "set->counters.sets += 1"
sets_after_add(n) == n + 1

\* hset_add
SetAdd(key) ==
    /\ SetOpened
    /\ counters[1] < MaxAdds
    /\ LET a == hset_add(wr[1], disk[SetName], key)
       IN  /\ wr' = [wr EXCEPT ![1] = a.s]
           /\ counters' = [counters EXCEPT ![1] =
                              IF a.res = 0 THEN sets_after_add(@) ELSE @]
           /\ disk' = [disk EXCEPT ![SetName] = a.d]
           /\ last' = SetCall("add", IF a.res = 0 THEN "Ok" ELSE "Internal",
                              life[SetName].size)
           /\ life' = [life EXCEPT ![SetName].ph =
                          IF a.res = 0 /\ @ = "paged_out" THEN "open" ELSE @]
    /\ SetUnchanged

\* hset_flush
SetFlush ==
    /\ SetOpened
    /\ LET f == hset_flush(wr[1], disk[SetName])
       IN  /\ wr' = [wr EXCEPT ![1] = f.s]
           /\ disk' = [disk EXCEPT ![SetName] = f.d]
    /\ last' = SetCall("flush", "Ok", hset_size(wr[1]))
    /\ UNCHANGED life
    /\ UNCHANGED counters
    /\ SetUnchanged

\* hset_close: the page-out
SetClose ==
    /\ SetOpened
    /\ LET c == hset_close(wr[1], disk[SetName])
       IN  /\ wr' = [wr EXCEPT ![1] = c.s]
           /\ disk' = [disk EXCEPT ![SetName] = c.d]
    /\ last' = SetCall("close", "Ok", hset_size(wr[1]))
    /\ life' = [life EXCEPT ![SetName] =
                   IF hset_is_proxied(wr[1]) THEN @
                   ELSE [ph |-> "paged_out", size |-> hset_size(wr[1])]]
    /\ UNCHANGED counters
    /\ SetUnchanged

\* hset_delete
SetDelete ==
    /\ SetOpened
    /\ LET r == hset_delete(wr[1], disk[SetName])
       IN  /\ wr' = [wr EXCEPT ![1] = r.s]
           /\ disk' = [disk EXCEPT ![SetName] = r.d]
    /\ last' = SetCall("delete", "Ok", hset_size(wr[1]))
    /\ life' = [life EXCEPT ![SetName] = [ph |-> "deleted", size |-> 0]]
    /\ UNCHANGED counters
    /\ SetUnchanged

\* destroy_set: hset_close and the free of the object
SetDestroy ==
    /\ SetOpened
    /\ LET c == hset_close(wr[1], disk[SetName])
       IN  /\ wr' = [wr EXCEPT ![1] = Unused]
           /\ disk' = [disk EXCEPT ![SetName] = c.d]
           /\ life' = [life EXCEPT ![SetName] =
                          IF ~c.d.dir THEN NoLife
                          ELSE [ph |-> "closed", size |-> hset_size(wr[1])]]
    /\ last' = SetCall("destroy", "Ok", hset_size(wr[1]))
    /\ counters' = [counters EXCEPT ![1] = 0]
    /\ SetUnchanged

\* hset_add when the fault-in may fail on an I/O error (open, ftruncate or
\* mmap in bitmap_from_filename): ok says whether the environment lets a
\* fault-in attempted by this add succeed
hset_add_io(s, d, key, ok) ==
    IF s.is_proxied /\ ~ok THEN [s |-> s, d |-> d, res |-> -1]
    ELSE hset_add(s, d, key)

\* a loop that goes on after a failed add
keys_never_break(res) == FALSE
\* setmgr_set_keys: "if (res) break;"
keys_break(res) == res # 0

\* the loop of setmgr_set_keys over keys[i..], n being counters.sets:
\* [s, d, res, sets, tried, failed]; tried is the number of hset_add calls
\* made, failed the index of the first one that failed (0 if none did)
RECURSIVE set_keys_io(_, _, _, _, _, _, _)
set_keys_io(s, d, n, keys, oks, i, res) ==
    IF i > Len(keys)
    THEN [s |-> s, d |-> d, res |-> res, sets |-> n, tried |-> Len(keys), failed |-> 0]
    ELSE LET a == hset_add_io(s, d, keys[i], oks[i])
             m == IF a.res = 0 THEN sets_after_add(n) ELSE n
         IN  IF keys_break(a.res)
             THEN [s |-> a.s, d |-> a.d, res |-> a.res, sets |-> m, tried |-> i,
                   failed |-> i]
             ELSE LET r == set_keys_io(a.s, a.d, m, keys, oks, i + 1, a.res)
                  IN  IF a.res # 0 THEN [r EXCEPT !.failed = i] ELSE r

\* setmgr_set_keys on the set, from the loop on
SetAddKeys(keys, oks) ==
    /\ SetOpened
    /\ counters[1] + Len(keys) <= MaxAdds
    /\ LET r == set_keys_io(wr[1], disk[SetName], counters[1], keys, oks, 1, 0)
       IN  /\ wr' = [wr EXCEPT ![1] = mark_hot(r.s)]
           /\ disk' = [disk EXCEPT ![SetName] = r.d]
           /\ counters' = [counters EXCEPT ![1] = r.sets]
           /\ last' = [op |-> "add_keys", name |-> SetName,
                       res |-> IF r.res = -1 THEN "Internal" ELSE "Ok",
                       num |-> r.tried, out |-> keys, was |-> life[SetName].ph,
                       failed |-> r.failed]
           /\ life' = [life EXCEPT ![SetName].ph =
                          IF ~r.s.is_proxied /\ @ = "paged_out" THEN "open" ELSE @]
    /\ SetUnchanged

SetNext ==
    \/ \E discover \in BOOLEAN, im \in BOOLEAN : SetOpen(discover, im)
    \/ \E key \in Keys : SetAdd(key)
    \/ \E keys \in KeySeqs(SetMaxKeys) :
          \E oks \in [1..Len(keys) -> BOOLEAN] : SetAddKeys(keys, oks)
    \/ SetFlush
    \/ SetClose
    \/ SetDelete
    \/ SetDestroy

SpecSet == init_set_manager /\ [][SetNext]_vars

(***************************************************************************)
(* Properties of the set used directly.                                    *)
(***************************************************************************)
\* C13: for a file-backed set a page-out followed by a fault-in restores
\* the registers.  The size reported while paged out is the size before the
\* close; after the add that faults the set in, the size is that of the
\* old registers with the key added (the same size when the key was in
\* them); and init_set with discover on the folder of a closed set reports
\* the size the set had when it was closed.
C13_PageOutFaultIn ==
    ~wr[1].in_memory =>
        /\ last.op = "close" => hset_size(wr[1]) = last.num
        /\ (last.op = "add" /\ last.was = "paged_out" /\ last.res = "Ok")
              => hset_size(wr[1]) = (IF last.num = 0 THEN 1 ELSE last.num)
        /\ (last.op = "open_discover" /\ last.was = "closed")
              => hset_size(wr[1]) = last.num
\* a set holding one key was paged out and faulted in by an add of that key
C13_Witness ==
    /\ last.op = "add"
    /\ last.was = "paged_out"
    /\ last.res = "Ok"
    /\ last.num = 1
    /\ ~wr[1].in_memory
    /\ ~hset_is_proxied(wr[1])
    /\ hset_size(wr[1]) = 1

\* C14: an unmap that returns Ok does not change the size of the set.  A
\* file-backed set is proxied afterwards, with a persisted size equal to
\* the size it had; an in-memory set is left as it was, and so is the disk.
C14_UnmapKeepsSize ==
    [][(last'.op = "unmap" /\ last'.res = "Ok")
          => LET w == take_set(last'.name)
             IN  /\ hset_size(wr'[w]) = hset_size(wr[w])
                 /\ wr[w].in_memory => (wr'[w] = wr[w] /\ disk' = disk)
                 /\ ~wr[w].in_memory
                       => /\ hset_is_proxied(wr'[w])
                          /\ wr'[w].cfg_size = hset_size(wr[w])
                          /\ disk'[last'.name].size = hset_size(wr[w])]_vars
\* a resident file-backed set with one key was unmapped
C14_Witness ==
    /\ last.op = "unmap"
    /\ last.res = "Ok"
    /\ take_set(last.name) # NoSet
    /\ ~wr[take_set(last.name)].in_memory
    /\ hset_is_proxied(wr[take_set(last.name)])
    /\ hset_size(wr[take_set(last.name)]) = 1
    /\ disk[last.name].regs = {"k1"}

C18_AddKeysStopsAtFailure ==
    [][last'.op = "add_keys"
          => LET k    == last'.failed
                 keys == last'.out
                 done == IF k = 0 THEN Len(keys) ELSE k - 1
                 old  == IF hset_is_proxied(wr[1]) THEN disk[SetName].regs
                         ELSE wr[1].regs
             IN  /\ last'.res = (IF k = 0 THEN "Ok" ELSE "Internal")
                 /\ last'.num = (IF k = 0 THEN Len(keys) ELSE k)
                 /\ counters'[1] = counters[1] + done
                 /\ ~hset_is_proxied(wr'[1])
                       => wr'[1].regs = IF wr[1].in_memory /\ hset_is_proxied(wr[1])
                                        THEN Range(SubSeq(keys, 1, done))
                                        ELSE old \cup Range(SubSeq(keys, 1, done))
                 /\ (k = 1 /\ hset_is_proxied(wr[1]))
                       => (hset_is_proxied(wr'[1]) /\ disk' = disk)]_vars
\* an add_keys call with two keys failed on its first key and made no
\* second add
C18_Witness ==
    /\ last.op = "add_keys"
    /\ last.res = "Internal"
    /\ Len(last.out) = 2
    /\ last.failed = 1
    /\ last.num = 1
    /\ hset_is_proxied(wr[1])

(***************************************************************************)
(* SpecDir: the calls that change the directory of sets, one at a time,    *)
(* with a create whose init_set may fail.                                  *)
(***************************************************************************)
\* setmgr_create_set when the mkdir of init_set fails (not with EEXIST):
\* init_set returns at once, add_set frees the wrapper and returns -1
DirCreateFails(n) ==
    /\ ~crashed
    /\ find_set(n) = NoSet
    /\ n \notin pending_deletes
    /\ Called(CallRec("create", n, "Internal"))
    /\ UNCHANGED <<vsn, primary_vsn, set_map, trees, delta, pending_deletes, wr, disk,
                   crashed>>

\* setmgr_vacuum, called when there is something to merge
DirVacuum == delta # <<>> /\ SeqVacuum

DirNext ==
    \/ \E n \in Names, im \in BOOLEAN : SeqCreate(n, im)
    \/ \E n \in Names : DirCreateFails(n)
    \/ \E n \in Names : SeqDrop(n)
    \/ \E n \in Names : SeqClear(n)
    \/ \E n \in Names : SeqUnmap(n)
    \/ DirVacuum

SpecDir == init_set_manager /\ [][DirNext]_vars

FailResults == {"AlreadyExists", "DeleteInProgress", "Internal", "NotFound", "NotProxied"}

\* C17: a create, drop or clear that fails leaves the version, the delta
\* list, both trees and the is_active and should_delete flags of every
\* wrapper as they were; a drop that follows a clear that returned
\* NotProxied on the same name succeeds.
C17_FailedCallChangesNothing ==
    [][/\ (last'.op \in {"create", "drop", "clear"} /\ last'.res \in FailResults)
            => /\ UNCHANGED <<vsn, primary_vsn, delta, trees, set_map, pending_deletes>>
               /\ \A w \in Wrappers :
                     /\ wr'[w].st = wr[w].st
                     /\ wr'[w].is_active = wr[w].is_active
                     /\ wr'[w].should_delete = wr[w].should_delete
       /\ (/\ last.op = "clear"
           /\ last.res = "NotProxied"
           /\ last'.op = "drop"
           /\ last'.name = last.name)
            => last'.res = "Ok"]_vars
\* clear returned NotProxied on a resident set, which is still active
C17_Witness ==
    /\ last.op = "clear"
    /\ last.res = "NotProxied"
    /\ HasActive(last.name)
    /\ ~hset_is_proxied(wr[take_set(last.name)])
    /\ ~wr[take_set(last.name)].should_delete

(***************************************************************************)
(* SpecAdd: hset_add called by two threads on one set, interleaved at its  *)
(* reads and writes of the set.  cl[c] is the position of thread c,        *)
(* cl[c].v the value of counters.sets it read; last.num counts the adds    *)
(* that returned 0 and last.out lists their keys.                          *)
(***************************************************************************)
Quiescent == \A c \in Clients : cl[c].pc = "idle"
AddUnchanged ==
    UNCHANGED <<vsn, primary_vsn, set_map, trees, delta, pending_deletes, clients,
                write_lock, vac, crashed, life, scen, cold, should_run>>

\* init_set, before the threads start
AddOpen(discover, im) == Quiescent /\ SetOpen(discover, im)

\* hset_delete, with no add in flight
AddDelete ==
    /\ Quiescent
    /\ SetOpened
    /\ disk[SetName].dir
    /\ LET r == hset_delete(wr[1], disk[SetName])
       IN  /\ wr' = [wr EXCEPT ![1] = r.s]
           /\ disk' = [disk EXCEPT ![SetName] = r.d]
    /\ UNCHANGED <<cl, last, counters, should_run>>
    /\ AddUnchanged

\* hset_add: "if (set->is_proxied)"
AddStart(c, key) ==
    /\ SetOpened
    /\ cl[c].pc = "idle"
    /\ last.num + Cardinality({x \in Clients : cl[x].pc # "idle"}) < MaxAdds
    /\ cl' = [cl EXCEPT ![c] = [IdleClient EXCEPT !.op = "add", !.out = <<key>>,
                                  !.pc = IF wr[1].is_proxied THEN "fault" ELSE "lock"]]
    /\ UNCHANGED <<wr, disk, last, counters, should_run>>
    /\ AddUnchanged

\* hset_add: "if (thread_safe_fault(set) != 0) return -1;"
AddFault(c) ==
    /\ cl[c].pc = "fault"
    /\ LET f == thread_safe_fault(wr[1], disk[SetName])
       IN  /\ wr' = [wr EXCEPT ![1] = f.s]
           /\ disk' = [disk EXCEPT ![SetName] = f.d]
           /\ cl' = [cl EXCEPT ![c] = IF f.res # 0
                                      THEN [@ EXCEPT !.pc = "ret", !.res = "Internal"]
                                      ELSE [@ EXCEPT !.pc = "lock"]]
    /\ UNCHANGED <<last, counters, should_run>>
    /\ AddUnchanged

\* LOCK_HLLD_SPIN(&set->hll_update): the lock is free or the thread spins
spin_trylock(s) == s.hll_update = "free"

\* hset_add: LOCK_HLLD_SPIN(&set->hll_update)
AddLock(c) ==
    /\ cl[c].pc = "lock"
    /\ spin_trylock(wr[1])
    /\ wr' = [wr EXCEPT ![1].hll_update = c]
    /\ cl' = [cl EXCEPT ![c].pc = "hash"]
    /\ UNCHANGED <<disk, last, counters, should_run>>
    /\ AddUnchanged

\* hset_add: hll_add_hash, and the read of counters.sets
AddRegister(c) ==
    /\ cl[c].pc = "hash"
    /\ wr' = [wr EXCEPT ![1].regs = @ \cup {cl[c].out[1]}]
    /\ cl' = [cl EXCEPT ![c].pc = "count", ![c].v = counters[1]]
    /\ UNCHANGED <<disk, last, counters, should_run>>
    /\ AddUnchanged

\* hset_add: the write of counters.sets, and UNLOCK_HLLD_SPIN
AddCount(c) ==
    /\ cl[c].pc = "count"
    /\ counters' = [counters EXCEPT ![1] = sets_after_add(cl[c].v)]
    /\ wr' = [wr EXCEPT ![1].hll_update = "free"]
    /\ cl' = [cl EXCEPT ![c].pc = "dirty"]
    /\ UNCHANGED <<disk, last>>
    /\ AddUnchanged

\* hset_add: "set->is_dirty = 1; return 0;"
AddDirty(c) ==
    /\ cl[c].pc = "dirty"
    /\ wr' = [wr EXCEPT ![1].is_dirty = TRUE]
    /\ cl' = [cl EXCEPT ![c].pc = "ret", ![c].res = "Ok"]
    /\ UNCHANGED <<disk, last, counters, should_run>>
    /\ AddUnchanged

\* the caller has the result
AddReturn(c) ==
    /\ cl[c].pc = "ret"
    /\ cl[c].op = "add"
    /\ last' = IF cl[c].res = "Ok"
               THEN [last EXCEPT !.num = @ + 1, !.out = @ \o cl[c].out]
               ELSE last
    /\ cl' = [cl EXCEPT ![c] = IdleClient]
    /\ UNCHANGED <<wr, disk, counters, should_run>>
    /\ AddUnchanged

AddNext ==
    \/ \E discover \in BOOLEAN, im \in BOOLEAN : AddOpen(discover, im)
    \/ AddDelete
    \/ \E c \in Clients, key \in Keys : AddStart(c, key)
    \/ \E c \in Clients : AddFault(c)
    \/ \E c \in Clients : AddLock(c)
    \/ \E c \in Clients : AddRegister(c)
    \/ \E c \in Clients : AddCount(c)
    \/ \E c \in Clients : AddDirty(c)
    \/ \E c \in Clients : AddReturn(c)

SpecAdd == init_set_manager /\ [][AddNext]_vars

LiveOps == {"create", "drop"}

\* a create or a drop begins
LiveStart(op, n) ==
    /\ vsn + 1 + LiveReserve <= MaxVsn
    /\ op = "create" => FreeSlots(MaxSets) # {}
    /\ Start(Worker, op, n)

\* the steps of a call in flight
CallStep(c) == Find2(c) \/ Walk(c) \/ PendAdd(c) \/ Return(c)

\* one step of setmgr_thread_main
VacStep ==
    \/ VacCatchUp
    \/ VacStart
    \/ VacSwapMap
    \/ VacSwapVsn
    \/ VacBarrier
    \/ VacMerge
    \/ VacUnlink
    \/ VacReclaim
    \/ VacClear

LiveNext ==
    \/ \E c \in Clients : Checkpoint(c)
    \/ \E c \in Clients : Register(c)
    \/ \E op \in LiveOps, n \in ConcNames : LiveStart(op, n)
    \/ \E c \in Clients : CallStep(c)
    \/ VacStep

LiveFair ==
    /\ SF_vars(VacStep)
    /\ \A c \in Clients : SF_vars(Checkpoint(c))
    /\ \A c \in Clients : WF_vars(Register(c))
    /\ \A c \in Clients : WF_vars(CallStep(c))

SpecLive == init_set_manager /\ [][LiveNext]_vars /\ LiveFair

\* the wrapper was dropped and the vacuum thread has not reclaimed it
Dropped(w) == wr[w].st = "live" /\ wr[w].should_delete /\ ~wr[w].is_active
\* the wrapper is freed, its folder was deleted with it, the pending list is
\* empty and a create of its name would not be answered DeleteInProgress
Reclaimed(w) ==
    /\ wr[w].st = "freed"
    /\ pending_deletes = {}
    /\ LET f == find_set(wr[w].name)
       IN  IF f = NoSet THEN ~disk[wr[w].name].dir ELSE wr[f].is_active

\* C19: with the vacuum thread running and the clients checkpointing, a
\* wrapper that was dropped is eventually reclaimed, and from then on a
\* create of its name is not refused with DeleteInProgress on its account.
C19_DropIsReclaimed ==
    \A w \in 1..MaxSets : Dropped(w) ~> Reclaimed(w)
\* the dropped wrapper was reclaimed by the vacuum thread and its name can
\* be created again
C19_Witness ==
    \E w \in 1..MaxSets :
        /\ wr[w].should_delete
        /\ Reclaimed(w)
        /\ find_set(wr[w].name) = NoSet
        /\ ~disk[wr[w].name].dir
        /\ vac.pc = "idle"

\* C20: once the creates and drops have stopped, the vacuum thread reaches
\* primary_vsn = vsn and stays idle there: it adds no more BARRIER deltas
\* and vsn stops growing.
C20_VacuumSettles ==
    <>[](primary_vsn = vsn /\ vac.pc = "idle")
\* the vacuum thread caught up after a cycle: the list holds its BARRIER
C20_Witness ==
    /\ primary_vsn = vsn
    /\ vac.pc = "idle"
    /\ delta # <<>>
    /\ delta[1].type = Barrier
    /\ \A c \in Clients : cl[c].pc = "idle"

(***************************************************************************)
(* SpecStop: shutdown.  The worker thread creates and drops a set and may  *)
(* stop checkpointing; the thread Background runs the loop that            *)
(* flush_thread_main and unmap_thread_main share (checkpoint, list, one    *)
(* call per listed name), each call as one step; the vacuum thread runs    *)
(* setmgr_thread_main.  should_run is cleared once.                        *)
(***************************************************************************)
BgOps == {"flush", "unmap"}

\* the top of the loop: "while (*should_run)", setmgr_client_checkpoint,
\* and on the ticks of the interval setmgr_list_sets (flush thread) or
\* setmgr_list_cold_sets (unmap thread)
BgTick(op, go) ==
    /\ should_run
    /\ cl[Background].pc = "idle"
    /\ clients[Background] # NoRow
    /\ clients' = [clients EXCEPT ![Background] = vsn]
    /\ IF ~go
       THEN UNCHANGED <<cl, wr>>
       ELSE /\ cl' = [cl EXCEPT ![Background] =
                        [IdleClient EXCEPT !.pc = "iter", !.op = op,
                            !.out = IF op = "flush" THEN setmgr_list_sets(<<>>)
                                    ELSE list_cold_names(trees[set_map], 1)]]
            /\ wr' = IF op = "flush" THEN wr ELSE list_cold_clear(trees[set_map])
    /\ UNCHANGED <<vsn, primary_vsn, set_map, trees, delta, pending_deletes, write_lock,
                   disk, vac, crashed, last, life, scen, cold, counters, should_run>>

\* "while (node)": setmgr_flush_set or setmgr_unmap_set on the next name
BgOp ==
    /\ cl[Background].pc = "iter"
    /\ cl[Background].out # <<>>
    /\ LET n == Head(cl[Background].out)
           w == take_set(n)
       IN  IF w = NoSet
           THEN UNCHANGED <<wr, disk>>
           ELSE /\ wr[w].st = "live"
                /\ LET r == IF cl[Background].op = "flush"
                            THEN hset_flush(wr[w], disk[n])
                            ELSE setmgr_unmap_set(wr[w], disk[n])
                   IN  /\ wr' = [wr EXCEPT ![w] = r.s]
                       /\ disk' = [disk EXCEPT ![n] = r.d]
    /\ cl' = [cl EXCEPT ![Background].out = Tail(@)]
    /\ UNCHANGED <<vsn, primary_vsn, set_map, trees, delta, pending_deletes, clients,
                   write_lock, vac, crashed, last, life, scen, cold, counters,
                   should_run>>

\* the end of the list: setmgr_cleanup_list, back to the top of the loop
BgEnd ==
    /\ cl[Background].pc = "iter"
    /\ cl[Background].out = <<>>
    /\ cl' = [cl EXCEPT ![Background] = IdleClient]
    /\ UNCHANGED <<vsn, primary_vsn, set_map, trees, delta, pending_deletes, clients,
                   write_lock, wr, disk, vac, crashed, last, life, scen, cold, counters,
                   should_run>>

\* "while (*should_run)" is false: return NULL
BgExit ==
    /\ ~should_run
    /\ cl[Background].pc = "idle"
    /\ cl' = [cl EXCEPT ![Background].pc = "exited"]
    /\ UNCHANGED <<vsn, primary_vsn, set_map, trees, delta, pending_deletes, clients,
                   write_lock, wr, disk, vac, crashed, last, life, scen, cold, counters,
                   should_run>>

\* setmgr_thread_main: "while (mgr->should_run)" is false: return NULL
VacExit ==
    /\ ~should_run
    /\ vac.pc = "idle"
    /\ vac' = [vac EXCEPT !.pc = "exited"]
    /\ UNCHANGED <<vsn, primary_vsn, set_map, trees, delta, pending_deletes, clients,
                   write_lock, wr, disk, cl, crashed, last, life, scen, cold, counters,
                   should_run>>

\* destroy_set_manager: "mgr->should_run = 0", and the flag of the
\* background threads cleared by their owner
Stop ==
    /\ should_run
    /\ should_run' = FALSE
    /\ UNCHANGED <<vsn, primary_vsn, set_map, trees, delta, pending_deletes, clients,
                   write_lock, wr, disk, cl, vac, crashed, last, life, scen, cold,
                   counters>>

StopNext ==
    \/ \E c \in Clients : Checkpoint(c)
    \/ \E c \in Clients : Register(c)
    \/ \E op \in LiveOps, n \in ConcNames : LiveStart(op, n)
    \/ CallStep(Worker)
    \/ \E op \in BgOps, go \in BOOLEAN : BgTick(op, go)
    \/ BgOp
    \/ BgEnd
    \/ BgExit
    \/ VacStep
    \/ VacExit
    \/ Stop

\* the threads are scheduled and a call in flight ends; no thread is
\* required to checkpoint
StopFair ==
    /\ SF_vars(VacStep \/ VacExit)
    /\ WF_vars(CallStep(Worker))
    /\ WF_vars(Register(Background))
    /\ WF_vars(BgOp \/ BgEnd \/ BgExit)

SpecStop == init_set_manager /\ [][StopNext]_vars /\ StopFair

\* C21: once should_run is cleared, the background thread and the vacuum
\* thread each reach the end of their function, whether or not the clients
\* reach the version of the barrier.
C21_WorkersExit ==
    ~should_run ~> (vac.pc = "exited" /\ cl[Background].pc = "exited")
\* both threads returned although a registered client never reached the
\* version of the barrier the vacuum thread had created
C21_Witness ==
    /\ vac.pc = "exited"
    /\ cl[Background].pc = "exited"
    /\ \E i \in 1..Len(delta) : delta[i].type = Barrier /\ clients[Worker] # NoRow
                                /\ clients[Worker] < delta[i].vsn

\* the vacuum thread is past the wait of version_barrier: it has replayed
\* the deltas into the tree that was the primary one and is unlinking delta
\* nodes or reclaiming wrappers
PastBarrier == vac.pc \in {"unlink", "reclaim"}
\* a registered client whose row is below the version of the BARRIER
BelowBarrier(c) == clients[c] # NoRow /\ clients[c] < vac.barrier

\* C22: while the vacuum thread replays into the former primary tree,
\* unlinks delta nodes or reclaims wrappers, no registered client's row is
\* below the version of the BARRIER it created.
C22_FenceHolds == PastBarrier => \A c \in Clients : ~BelowBarrier(c)

(***************************************************************************)
(* The directory against one map updated in place.                         *)
(***************************************************************************)
\* what find_set answers for the name: nothing, an active wrapper, or an
\* inactive wrapper that waits for delete_old_versions
FindClass(n) ==
    LET w == find_set(n)
    IN  IF w = NoSet THEN "absent"
        ELSE IF wr[w].st # "live" THEN "freed"
        ELSE IF wr[w].is_active THEN "active"
        ELSE "inactive"

\* the entry of the name in a map that each call updates at once: a create
\* stores an active wrapper, a drop or a clear makes it inactive, a vacuum
\* erases the inactive ones
RefClass(n) ==
    IF life[n].ph \in {"active", "reloaded"} THEN "active"
    ELSE IF life[n].ph \in {"dropped", "cleared"} THEN "inactive"
    ELSE "absent"

\* C23: after every sequence of create, drop, clear and vacuum calls made
\* one at a time, find_set (primary tree, then the delta nodes above
\* primary_vsn) answers for every name what a single map updated in place
\* by each call holds: absent, active, or inactive awaiting reclamation.
C23_FindMatchesOneMap == \A n \in Names : FindClass(n) = RefClass(n)
\* one vacuum merged the CREATE and the DELETE of a name that never reached
\* a tree before: the name is absent, in find_set and in both trees
C23_Witness ==
    \E n \in Names :
        /\ last.op = "vacuum"
        /\ set_map = 1
        /\ vsn = 2
        /\ primary_vsn = 2
        /\ life[n].ph = "vac_dropped"
        /\ \A m \in Names \ {n} : life[m].ph = "none"
        /\ find_set(n) = NoSet
        /\ \A t \in {0, 1} : art_search(trees[t], n) = NoSet

\* C24: whenever the vacuum thread is at the top of its loop (before its
\* first cycle and between cycles), and between the calls of the runs that
\* call setmgr_vacuum themselves, the alternate tree holds the same
\* name-to-wrapper entries as the primary tree.
C24_TreesAgreeWhenIdle == vac.pc = "idle" => trees[alt_set_map] = trees[set_map]
\* the vacuum thread is back at the top of its loop after a cycle that
\* merged a CREATE: both trees hold the wrapper
C24_Witness ==
    /\ vac.pc = "idle"
    /\ primary_vsn > 0
    /\ \E n \in Names : /\ art_search(trees[set_map], n) # NoSet
                        /\ art_search(trees[alt_set_map], n) = art_search(trees[set_map], n)

(***************************************************************************)
(* Versions and the delta list.                                            *)
(***************************************************************************)
\* the versions of the nodes of the list
LogVsns == {delta[i].vsn : i \in 1..Len(delta)}

\* mgr->vsn grows by one with each node put at the head of the list, and
\* changes in no other step
VsnStep ==
    \/ /\ vsn' = vsn
       /\ \/ delta' = delta
          \/ \E k \in 0..Len(delta) : delta' = SubSeq(delta, 1, k)
    \/ /\ vsn' = vsn + 1
       /\ Len(delta') = Len(delta) + 1
       /\ Tail(delta') = delta
       /\ delta'[1].vsn = vsn'
       /\ delta'[1].type \in {Create, Delete, Barrier}

\* the list is newest first, its versions go down by one from node to node
LogOrdered ==
    /\ delta # <<>> => delta[1].vsn <= vsn
    /\ \A i \in 1..(Len(delta) - 1) : delta[i].vsn = delta[i + 1].vsn + 1

\* every version above primary_vsn is in the list, so that the walk of
\* find_set meets the node with vsn = primary_vsn + 1
LogCovers ==
    /\ primary_vsn <= vsn
    /\ \A v \in (primary_vsn + 1)..vsn : v \in LogVsns

\* C25: mgr->vsn only grows, by exactly one per CREATE, DELETE or BARRIER
\* node added; the list is newest first with versions that go down by one;
\* primary_vsn <= vsn and every version in (primary_vsn, vsn] is in the list.
C25_VersionsAndLog == [](LogOrdered /\ LogCovers) /\ [][VsnStep]_vars

(***************************************************************************)
(* SpecLock: two threads call flush, size, add_keys (one key), cb and      *)
(* unmap on one set through the manager; wr[1] is its wrapper,             *)
(* disk[SetName] its folder.  The steps are the lock operations and the    *)
(* reads and writes of the shared fields of hlld_set between them.         *)
(* cl[c].res is "built" from the moment the thread's thread_safe_fault     *)
(* created the HLL until its hset_add returns; last.num counts the calls   *)
(* that returned.                                                          *)
(***************************************************************************)
LockOps == {"flush", "size", "add_keys", "cb", "unmap"}

\* pthread_rwlock_rdlock, pthread_rwlock_wrlock: the lock can be taken
rd_always(s) == TRUE
rd_trylock(s) == s.rwlock.writer = "free"
wr_always(s) == TRUE
wr_trylock(s) == s.rwlock.writer = "free" /\ s.rwlock.readers = {}
\* pthread_mutex_lock(&s->hll_lock): the mutex can be taken
mutex_always(s) == TRUE
mutex_trylock(s) == s.hll_lock = "free"

\* take_set, then the first statement of the call: the set is in_memory
\* (unmap leaves), the lock the call waits for, or the callback of cb
LkBegin(c, op, key) ==
    /\ SetOpened
    /\ cl[c].pc = "idle"
    /\ last.num + Cardinality({x \in Clients : cl[x].pc # "idle"}) < MaxCalls
    /\ cl' = [cl EXCEPT ![c] =
                 [IdleClient EXCEPT !.op = op, !.out = <<key>>,
                     !.pc = IF op = "unmap"
                            THEN (IF wr[1].in_memory THEN "leave" ELSE "wrlock")
                            ELSE IF op = "cb" THEN "cb" ELSE "rdlock"]]
    /\ UNCHANGED <<wr, disk, last, counters>>
    /\ AddUnchanged

\* pthread_rwlock_rdlock(&set->rwlock) of setmgr_flush_set, setmgr_set_keys
\* and setmgr_set_size; for add_keys also "if (set->is_proxied)" of hset_add
LkRdLock(c) ==
    /\ cl[c].pc = "rdlock"
    /\ rd_trylock(wr[1])
    /\ wr' = [wr EXCEPT ![1].rwlock.readers = @ \cup {c}]
    /\ cl' = [cl EXCEPT ![c].pc =
                 IF cl[c].op = "flush" THEN "f_check"
                 ELSE IF cl[c].op = "size" THEN "size"
                 ELSE IF wr[1].is_proxied THEN "flt_lock" ELSE "lock"]
    /\ UNCHANGED <<disk, last, counters>>
    /\ AddUnchanged

\* thread_safe_fault: pthread_mutex_lock and "if (!s->is_proxied) goto LEAVE"
LkFaultLock(c) ==
    /\ cl[c].pc = "flt_lock"
    /\ mutex_trylock(wr[1])
    /\ IF ~wr[1].is_proxied
       THEN /\ cl' = [cl EXCEPT ![c].pc = "lock"]
            /\ UNCHANGED wr
       ELSE /\ cl' = [cl EXCEPT ![c].pc = "flt_build"]
            /\ wr' = [wr EXCEPT ![1].hll_lock = c]
    /\ UNCHANGED <<disk, last, counters>>
    /\ AddUnchanged

\* a fault-in that counts a page-in whether it opens or creates the file
fault_page_ins_any_file(s, d) == IF ~s.in_memory THEN 1 ELSE 0
\* thread_safe_fault: "s->counters.page_ins += 1" when the register file
\* exists
fault_page_ins(s, d) == IF ~s.in_memory /\ d.file THEN 1 ELSE 0

\* thread_safe_fault after its test: the bitmap, page_ins, the HLL,
\* is_proxied = 0 and pthread_mutex_unlock
LkFaultBuild(c) ==
    /\ cl[c].pc = "flt_build"
    /\ LET f == thread_safe_fault([wr[1] EXCEPT !.is_proxied = TRUE], disk[SetName])
       IN  /\ wr' = [wr EXCEPT ![1] =
                        [f.s EXCEPT !.hll_lock = "free",
                                    !.page_ins = @ + (IF f.res = 0
                                                      THEN fault_page_ins(wr[1], disk[SetName])
                                                      ELSE 0)]]
           /\ disk' = [disk EXCEPT ![SetName] = f.d]
           /\ cl' = [cl EXCEPT ![c] = IF f.res # 0
                                      THEN [@ EXCEPT !.pc = "ret", !.res = "Internal"]
                                      ELSE [@ EXCEPT !.pc = "lock", !.res = "built"]]
    /\ UNCHANGED <<last, counters>>
    /\ AddUnchanged

\* setmgr_set_keys after hset_add returned: "set->is_hot = 1" and
\* pthread_rwlock_unlock
LkKeysEnd(c) ==
    /\ cl[c].pc = "ret"
    /\ cl[c].op = "add_keys"
    /\ wr' = [wr EXCEPT ![1].is_hot = TRUE, ![1].rwlock.readers = @ \ {c}]
    /\ cl' = [cl EXCEPT ![c] = IdleClient]
    /\ last' = [last EXCEPT !.num = @ + 1]
    /\ UNCHANGED <<disk, counters>>
    /\ AddUnchanged

\* setmgr_set_size: hset_size
LkSize(c) ==
    /\ cl[c].pc = "size"
    /\ cl' = [cl EXCEPT ![c].pc = "unlock", ![c].v = hset_size(wr[1])]
    /\ UNCHANGED <<wr, disk, last, counters>>
    /\ AddUnchanged

\* hset_flush: "if (set->is_proxied) return 0; if (!set->is_dirty) return 0;"
LkFlushCheck(c) ==
    /\ cl[c].pc = "f_check"
    /\ cl' = [cl EXCEPT ![c].pc = IF wr[1].is_proxied \/ ~wr[1].is_dirty
                                  THEN "unlock" ELSE "f_size"]
    /\ UNCHANGED <<wr, disk, last, counters>>
    /\ AddUnchanged

\* hset_flush: "set->set_config.size = hset_size(set)" and the write of
\* config.ini
LkFlushSize(c) ==
    /\ cl[c].pc = "f_size"
    /\ LET n == hset_size(wr[1])
       IN  /\ wr' = [wr EXCEPT ![1].cfg_size = n]
           /\ disk' = [disk EXCEPT ![SetName] =
                          IF @.dir THEN [@ EXCEPT !.ini = TRUE, !.size = n,
                                                  !.in_memory = wr[1].in_memory]
                          ELSE @]
    /\ cl' = [cl EXCEPT ![c].pc = "f_clean"]
    /\ UNCHANGED <<last, counters>>
    /\ AddUnchanged

\* hset_flush: "set->is_dirty = 0" and bitmap_flush
LkFlushClean(c) ==
    /\ cl[c].pc = "f_clean"
    /\ wr' = [wr EXCEPT ![1].is_dirty = FALSE]
    /\ disk' = [disk EXCEPT ![SetName] =
                   IF ~wr[1].in_memory THEN bitmap_flush(wr[1], @) ELSE @]
    /\ cl' = [cl EXCEPT ![c].pc = "unlock"]
    /\ UNCHANGED <<last, counters>>
    /\ AddUnchanged

\* an unmap that takes the mutex of the set before the wrapper's lock
LkWrLock_after_mutex(c) ==
    /\ cl[c].pc = "wrlock"
    /\ IF wr[1].hll_lock # c
       THEN /\ mutex_trylock(wr[1])
            /\ wr' = [wr EXCEPT ![1].hll_lock = c]
            /\ UNCHANGED cl
       ELSE /\ wr_trylock(wr[1])
            /\ wr' = [wr EXCEPT ![1].rwlock.writer = c]
            /\ cl' = [cl EXCEPT ![c].pc = "closing"]
    /\ UNCHANGED <<disk, last, counters>>
    /\ AddUnchanged

\* setmgr_unmap_set: pthread_rwlock_wrlock(&set->rwlock)
LkWrLock(c) ==
    /\ cl[c].pc = "wrlock"
    /\ wr_trylock(wr[1])
    /\ wr' = [wr EXCEPT ![1].rwlock.writer = c]
    /\ cl' = [cl EXCEPT ![c].pc = "cl_lock"]
    /\ UNCHANGED <<disk, last, counters>>
    /\ AddUnchanged

\* hset_close: pthread_mutex_lock(&set->hll_lock)
LkCloseLock(c) ==
    /\ cl[c].pc = "cl_lock"
    /\ mutex_trylock(wr[1])
    /\ wr' = [wr EXCEPT ![1].hll_lock = c]
    /\ cl' = [cl EXCEPT ![c].pc = "closing"]
    /\ UNCHANGED <<disk, last, counters>>
    /\ AddUnchanged

\* hset_close: hset_flush, hll_destroy, is_proxied = 1, page_outs += 1, and
\* pthread_mutex_unlock
LkClose(c) ==
    /\ cl[c].pc = "closing"
    /\ LET r == hset_close(wr[1], disk[SetName])
       IN  /\ wr' = [wr EXCEPT ![1] =
                        [r.s EXCEPT !.hll_lock = "free",
                                    !.page_outs = @ + (IF wr[1].is_proxied THEN 0 ELSE 1)]]
           /\ disk' = [disk EXCEPT ![SetName] = r.d]
    /\ cl' = [cl EXCEPT ![c].pc = "unlock"]
    /\ UNCHANGED <<last, counters>>
    /\ AddUnchanged

\* pthread_rwlock_unlock(&set->rwlock) and the return of the call; the
\* return of setmgr_unmap_set on an in_memory set and of setmgr_set_cb
LkUnlock(c) ==
    /\ cl[c].pc \in {"unlock", "leave", "cb"}
    /\ wr' = [wr EXCEPT ![1].rwlock =
                 [readers |-> @.readers \ {c},
                  writer |-> IF @.writer = c THEN "free" ELSE @.writer]]
    /\ cl' = [cl EXCEPT ![c] = IdleClient]
    /\ last' = [last EXCEPT !.num = @ + 1]
    /\ UNCHANGED <<disk, counters>>
    /\ AddUnchanged

LockNext ==
    \/ \E discover \in BOOLEAN, im \in BOOLEAN : AddOpen(discover, im)
    \/ \E c \in Clients, op \in LockOps, key \in Keys : LkBegin(c, op, key)
    \/ \E c \in Clients : LkRdLock(c)
    \/ \E c \in Clients : LkFaultLock(c)
    \/ \E c \in Clients : LkFaultBuild(c)
    \/ \E c \in Clients : AddLock(c)
    \/ \E c \in Clients : AddRegister(c)
    \/ \E c \in Clients : AddCount(c)
    \/ \E c \in Clients : AddDirty(c)
    \/ \E c \in Clients : LkKeysEnd(c)
    \/ \E c \in Clients : LkSize(c)
    \/ \E c \in Clients : LkFlushCheck(c)
    \/ \E c \in Clients : LkFlushSize(c)
    \/ \E c \in Clients : LkFlushClean(c)
    \/ \E c \in Clients : LkWrLock(c)
    \/ \E c \in Clients : LkCloseLock(c)
    \/ \E c \in Clients : LkClose(c)
    \/ \E c \in Clients : LkUnlock(c)

SpecLock == init_set_manager /\ [][LockNext]_vars

\* the thread is inside hset_close on behalf of setmgr_unmap_set
PagingOut(c) == cl[c].op = "unmap" /\ cl[c].pc \in {"cl_lock", "closing"}
\* the thread is inside thread_safe_fault and builds the bitmap and the HLL
FaultingIn(c) == cl[c].pc = "flt_build"
\* the thread is between the start and the end of its use of the set
Using(c) ==
    \/ cl[c].op = "flush" /\ cl[c].pc \in {"f_check", "f_size", "f_clean"}
    \/ cl[c].op = "size" /\ cl[c].pc = "size"
    \/ cl[c].op = "add_keys"
         /\ cl[c].pc \in {"flt_lock", "flt_build", "lock", "hash", "count", "dirty", "ret"}
    \/ cl[c].op = "cb" /\ cl[c].pc = "cb"

\* C26 as stated: while a thread pages the set out for unmap, no thread
\* is using the set for flush, size, add_keys or cb.
C26_NoUseDuringPageOut ==
    \A c, x \in Clients : PagingOut(c) => ~Using(x)

\* C26, amended: flush, size and add_keys use the set with the reader lock
\* held and unmap pages it out with the writer lock held, so the page-out
\* overlaps none of these three; cb takes no lock.
C26_NoLockedUseDuringPageOut ==
    \A c \in Clients :
        /\ (Using(c) /\ cl[c].op # "cb") => c \in wr[1].rwlock.readers
        /\ PagingOut(c) => /\ wr[1].rwlock.writer = c
                           /\ \A x \in Clients : Using(x) => cl[x].op = "cb"
\* a thread pages a resident set out while the other waits for the
\* reader lock
C26_Witness ==
    \E c, x \in Clients :
        /\ PagingOut(c)
        /\ cl[c].pc = "closing"
        /\ ~wr[1].is_proxied
        /\ cl[x].pc = "rdlock"

\* the thread reads or writes the registers of the HLL, or destroys them
OnRegisters(c) ==
    cl[c].pc \in {"flt_build", "lock", "hash", "count", "dirty", "f_size", "f_clean",
                  "cl_lock", "closing"}

\* C27 as stated: a thread faults the set in only with the writer lock of
\* the wrapper held, and no other thread is then inside size, flush or add
\* on the set.
C27_FaultUnderWriterLock ==
    \A c \in Clients :
        FaultingIn(c) => /\ wr[1].rwlock.writer = c
                         /\ \A x \in Clients \ {c} : ~Using(x)

\* C27, amended: a thread faults the set in with the reader lock of the
\* wrapper and the mutex hll_lock of the set held; the set is proxied until
\* the fault-in ends, and meanwhile no other thread faults it in, pages it
\* out or touches the registers, although a size, a flush or another add
\* may be running.
C27_FaultUnderMutex ==
    \A c \in Clients :
        FaultingIn(c) => /\ c \in wr[1].rwlock.readers
                         /\ wr[1].rwlock.writer = "free"
                         /\ wr[1].hll_lock = c
                         /\ wr[1].is_proxied
                         /\ \A x \in Clients \ {c} : ~OnRegisters(x)
\* one thread faults the set in while the other, holding the reader lock
\* as well, is inside setmgr_set_size
C27_Witness ==
    \E c, x \in Clients :
        /\ FaultingIn(c)
        /\ cl[x].op = "size"
        /\ cl[x].pc = "size"
        /\ x \in wr[1].rwlock.readers

C29_CleanMeansPersisted ==
    (/\ SetOpened
     /\ ~wr[1].is_proxied
     /\ ~wr[1].is_dirty
     /\ \A c \in Clients : cl[c].pc \notin {"count", "dirty"})
        => disk[SetName].size = hll_size(wr[1].regs)

(***************************************************************************)
(* A list that runs while the vacuum thread swaps the trees.               *)
(***************************************************************************)
\* the version of the CREATE node of the wrapper, 0 once the node is
\* unlinked (the versions at or below every client row)
CreatedAt(w) ==
    IF \E i \in 1..Len(delta) : delta[i].type = Create /\ delta[i].set = w
    THEN (CHOOSE v \in 1..MaxVsn :
             \E i \in 1..Len(delta) : /\ delta[i].type = Create
                                      /\ delta[i].set = w
                                      /\ delta[i].vsn = v)
    ELSE 0

\* the wrapper was created before the thread's last checkpoint and is
\* active now: it was active all through the call the thread has in flight
ActiveThroughCall(c, w) ==
    /\ wr[w].st = "live"
    /\ wr[w].is_active
    /\ clients[c] # NoRow
    /\ CreatedAt(w) <= clients[c]

\* C30: a list that returns, whatever the vacuum thread did meanwhile,
\* holds no name twice and holds every set that was active all through the
\* call.
C30_ListExactUnderSwap ==
    \A c \in Clients :
        (cl[c].pc = "ret" /\ cl[c].op = "list")
            => /\ NoDuplicates(cl[c].out)
               /\ \A w \in Wrappers :
                      (ActiveThroughCall(c, w) /\ HasPrefix(wr[w].name, cl[c].name))
                          => wr[w].name \in Range(cl[c].out)

(***************************************************************************)
(* The version of the primary tree over the vacuum cycles.                 *)
(***************************************************************************)
\* C31: no step makes mgr->primary_vsn smaller, a thread that registers
\* through setmgr_client_checkpoint during the vacuum cycles included.
C31_PrimaryVsnMonotone == [][primary_vsn' >= primary_vsn]_vars

(***************************************************************************)
(* setmgr_vacuum in every state of the sequential runs.                    *)
(***************************************************************************)
\* C32: setmgr_vacuum completes in every state it is called in, the
\* states with an empty delta list (after init, after a vacuum) included.
C32_VacuumCompletes == last.op = "vacuum" => (last.res = "Ok" /\ ~crashed)

(***************************************************************************)
(* SpecDestroy: create, drop, unmap, clear and vacuum called one at a      *)
(* time, then destroy_set_manager and init_set_manager on the same         *)
(* data_dir, as in SpecRestart.                                            *)
(***************************************************************************)
RsClear(n) == Up /\ SeqClear(n)

DestroyNext ==
    \/ \E n \in Names, im \in BOOLEAN : RsCreate(n, im)
    \/ \E n \in Names : RsDrop(n)
    \/ \E n \in Names : RsUnmap(n)
    \/ \E n \in Names : RsClear(n)
    \/ RsVacuum
    \/ RsDestroy
    \/ RsInit

SpecDestroy == init_set_manager /\ [][DestroyNext]_vars

(***************************************************************************)
(* SpecShutdown: the runs of SpecStop, without the fairness, followed by   *)
(* the rest of destroy_set_manager once the vacuum thread is joined.       *)
(***************************************************************************)
\* destroy_set_manager after pthread_join: no other thread is in a call
StopDestroy ==
    /\ ~should_run
    /\ vac.pc = "exited"
    /\ cl[Background].pc = "exited"
    /\ cl[Worker].pc = "idle"
    /\ LET t == destroy_tree(wr, disk, trees[set_map], 1)
           r == destroy_delta(t.wr, t.disk, delta, 1)
       IN  /\ wr' = r.wr
           /\ disk' = r.disk
    /\ delta' = <<>>
    /\ trees' = [t \in {0, 1} |-> EmptyTree]
    /\ cl' = [cl EXCEPT ![Worker].pc = "destroyed"]
    /\ last' = [NoCall EXCEPT !.op = "destroy"]
    /\ UNCHANGED <<vsn, primary_vsn, set_map, pending_deletes, clients, write_lock,
                   vac, crashed, life, scen, cold, counters, should_run>>

ShutdownNext ==
    \/ StopNext
    \/ StopDestroy

SpecShutdown == init_set_manager /\ [][ShutdownNext]_vars

\* C33: after destroy_set_manager every wrapper that was allocated has been
\* cleaned up and freed once: none is left live (leaked) and none was freed
\* twice, whatever creates, drops and clears were not vacuumed.
C33_DestroyFreesOnce ==
    last.op = "destroy" => \A w \in Wrappers : wr[w].st \in {"unused", "freed"}

(***************************************************************************)
(* SpecFault: one hlld_set, opened proxied, with adds whose fault-in can   *)
(* fail at one of its calls, and page-outs.                                *)
(***************************************************************************)
\* the call of thread_safe_fault that fails: none, stat on the register
\* file (an error other than ENOENT), open, ftruncate, mmap (or the read
\* of the file into the buffer), hll_init_from_bitmap
FaultSteps == {"none", "stat", "open", "ftruncate", "mmap", "hll"}

\* thread_safe_fault when the call io fails, if the fault-in gets to it:
\* [s, d, res].  hll_init_from_bitmap is taken to refuse a bitmap that
\* bitmap_from_file did not set up.
thread_safe_fault_io(s, d, io) ==
    LET fail == [s |-> s, d |-> d, res |-> -1]
    IN  IF ~s.is_proxied THEN [s |-> s, d |-> d, res |-> 0]
        ELSE IF s.in_memory
        THEN IF io = "mmap" THEN fail
             ELSE IF io = "hll" THEN [s |-> [s EXCEPT !.bm = "open"], d |-> d, res |-> -1]
             ELSE [s |-> [s EXCEPT !.bm = "open", !.is_proxied = FALSE, !.regs = {}],
                   d |-> d, res |-> 0]
        ELSE IF io = "stat" \/ ~d.dir THEN fail
        ELSE IF d.file
        THEN IF io \in {"open", "mmap"} \/ d.empty THEN fail
             ELSE LET s1 == [s EXCEPT !.bm = "open", !.page_ins = @ + 1]
                  IN  IF io = "hll" THEN [s |-> s1, d |-> d, res |-> -1]
                      ELSE [s |-> [s1 EXCEPT !.is_proxied = FALSE, !.regs = d.regs],
                            d |-> d, res |-> 0]
        ELSE IF io = "open" THEN fail
        ELSE IF io = "ftruncate"
        THEN [s |-> s, d |-> [d EXCEPT !.file = TRUE, !.empty = TRUE, !.regs = {}],
              res |-> -1]
        ELSE IF io = "mmap" THEN fail
        ELSE LET s1 == [s EXCEPT !.bm = "open"]
                 d1 == [d EXCEPT !.file = TRUE, !.regs = {}]
             IN  IF io = "hll" THEN [s |-> s1, d |-> d1, res |-> -1]
                 ELSE [s |-> [s1 EXCEPT !.is_proxied = FALSE, !.regs = {}],
                       d |-> d1, res |-> 0]

\* hset_add over thread_safe_fault_io: [s, d, res]
hset_add_fault(s, d, key, io) ==
    LET f == IF s.is_proxied THEN thread_safe_fault_io(s, d, io)
             ELSE [s |-> s, d |-> d, res |-> 0]
    IN  IF f.res # 0 THEN f
        ELSE [s |-> [f.s EXCEPT !.regs = @ \cup {key}, !.is_dirty = TRUE],
              d |-> f.d, res |-> 0]

\* init_set(config, SetName, 0, &set)
FtOpen(im) ==
    /\ ~SetOpened
    /\ LET r == init_set([Unused EXCEPT !.st = "live", !.name = SetName],
                         disk[SetName], im, FALSE)
       IN  /\ wr' = [wr EXCEPT ![1] = r.s]
           /\ disk' = [disk EXCEPT ![SetName] = r.d]
    /\ last' = [SetCall("open_proxied", "Ok", 0) EXCEPT !.out = <<0>>]
    /\ counters' = [counters EXCEPT ![1] = 0]
    /\ UNCHANGED life
    /\ SetUnchanged

\* hset_add; last keeps counters.sets and counters.page_ins as they were
\* before the call
FtAdd(key, io) ==
    /\ SetOpened
    /\ counters[1] < MaxAdds
    /\ wr[1].page_ins < MaxCalls
    /\ LET a == hset_add_fault(wr[1], disk[SetName], key, io)
       IN  /\ wr' = [wr EXCEPT ![1] = a.s]
           /\ disk' = [disk EXCEPT ![SetName] = a.d]
           /\ counters' = [counters EXCEPT ![1] =
                              IF a.res = 0 THEN sets_after_add(@) ELSE @]
           /\ last' = [SetCall("add", IF a.res = 0 THEN "Ok" ELSE "Internal",
                               counters[1])
                          EXCEPT !.out = <<wr[1].page_ins>>,
                                 !.was = IF wr[1].is_proxied THEN io ELSE "resident"]
    /\ UNCHANGED life
    /\ SetUnchanged

\* hset_close: the page-out; hll_destroy closes the bitmap
FtClose ==
    /\ SetOpened
    /\ wr[1].page_outs < MaxCalls
    /\ LET c == hset_close(wr[1], disk[SetName])
       IN  /\ wr' = [wr EXCEPT ![1] =
                        IF wr[1].is_proxied THEN c.s
                        ELSE [c.s EXCEPT !.bm = "none", !.page_outs = @ + 1]]
           /\ disk' = [disk EXCEPT ![SetName] = c.d]
    /\ last' = [SetCall("close", "Ok", counters[1]) EXCEPT !.out = <<wr[1].page_ins>>]
    /\ UNCHANGED <<life, counters>>
    /\ SetUnchanged

\* the page of the register file that holds the registers a key sets
PageOf(key) == 1

\* flush_all_pages from page i on, res being the result so far: the result
\* of flush_page on the last page.  fails[i] says that pwrite fails on
\* page i.
RECURSIVE flush_all_pages(_, _, _)
flush_all_pages(fails, i, res) ==
    IF i > MaxPages THEN res
    ELSE flush_all_pages(fails, i + 1, IF fails[i] THEN -1 ELSE 0)

\* bitmap_flush of a PERSISTENT bitmap: [d, res].  The pages whose pwrite
\* succeeded hold the registers of the buffer, the others what they held.
bitmap_flush_io(s, d, fails) ==
    IF ~d.file \/ s.bm = "none" THEN [d |-> d, res |-> 0]
    ELSE [d   |-> [d EXCEPT !.regs = {k \in s.regs : ~fails[PageOf(k)]}
                                      \cup {k \in d.regs : fails[PageOf(k)]}],
          res |-> flush_all_pages(fails, 1, 0)]

\* hset_flush when update_filename_from_set_config fails (~cfg_ok) and
\* when the page writes in fails fail: [s, d, res, cfg, bm]; cfg and bm
\* are the results of the two calls, 0 for a call that was not made
hset_flush_io(s, d, cfg_ok, fails) ==
    IF s.is_proxied \/ ~s.is_dirty
    THEN [s |-> s, d |-> d, res |-> 0, cfg |-> 0, bm |-> 0]
    ELSE LET s1 == [s EXCEPT !.cfg_size = hset_size(s), !.is_dirty = FALSE]
             d1 == IF d.dir /\ cfg_ok
                   THEN [d EXCEPT !.ini = TRUE, !.size = s1.cfg_size,
                                  !.in_memory = s.in_memory]
                   ELSE d
             b  == IF ~s.in_memory THEN bitmap_flush_io(s1, d1, fails)
                   ELSE [d |-> d1, res |-> 0]
         IN  [s |-> s1, d |-> b.d, res |-> b.res,
              cfg |-> IF d.dir /\ cfg_ok THEN 0 ELSE -1, bm |-> b.res]

\* setmgr_flush_set on the set, from hset_flush on.  last.res is what
\* hset_flush returns, last.num what setmgr_flush_set returns; last.cfg
\* and last.fails say what failed.
FtFlush(cfg_ok, fails) ==
    /\ SetOpened
    /\ LET f == hset_flush_io(wr[1], disk[SetName], cfg_ok, fails)
       IN  /\ wr' = [wr EXCEPT ![1] = f.s]
           /\ disk' = [disk EXCEPT ![SetName] = f.d]
           /\ last' = [op |-> "flush", name |-> SetName,
                       res |-> IF f.res = 0 THEN "Ok" ELSE "Internal",
                       num |-> 0, out |-> <<wr[1].page_ins>>,
                       was |-> IF wr[1].is_proxied \/ ~wr[1].is_dirty THEN "noop"
                               ELSE IF wr[1].in_memory THEN "memory" ELSE "file",
                       cfg |-> f.cfg, fails |-> fails]
    /\ UNCHANGED <<life, counters>>
    /\ SetUnchanged

FaultNext ==
    \/ \E im \in BOOLEAN : FtOpen(im)
    \/ \E key \in Keys, io \in FaultSteps : FtAdd(key, io)
    \/ \E cfg_ok \in BOOLEAN, fails \in [1..MaxPages -> BOOLEAN] : FtFlush(cfg_ok, fails)
    \/ FtClose

SpecFault == init_set_manager /\ [][FaultNext]_vars

\* C34: after an add whose fault-in failed the set is proxied, holds no
\* bitmap and no HLL, its mutex is free, and counters.sets and
\* counters.page_ins are what they were before the add.
C34_FailedFaultKeepsNothing ==
    (last.op = "add" /\ last.res = "Internal")
        => /\ wr[1].is_proxied
           /\ wr[1].bm = "none"
           /\ wr[1].regs = {}
           /\ wr[1].hll_lock = "free"
           /\ counters[1] = last.num
           /\ wr[1].page_ins = last.out[1]

\* C35: a flush of a resident, dirty set that failed to write config.ini
\* or to write the bitmap back returns an error, from hset_flush and from
\* setmgr_flush_set, and leaves is_dirty set.
C35_FailedFlushStaysDirty ==
    (/\ last.op = "flush"
     /\ last.was \in {"memory", "file"}
     /\ \/ last.cfg # 0
        \/ last.was = "file" /\ \E i \in 1..MaxPages : last.fails[i])
        => /\ last.res = "Internal"
           /\ last.num # 0
           /\ wr[1].is_dirty

\* C36: bitmap_flush of a PERSISTENT bitmap returns an error whenever the
\* write of one of its pages failed.
C36_AnyPageFailureReported ==
    (/\ last.op = "flush"
     /\ last.was = "file"
     /\ \E i \in 1..MaxPages : last.fails[i])
        => last.res = "Internal"

(***************************************************************************)
(* The page counters of a set over the runs of SpecLock.                   *)
(***************************************************************************)
\* what a step does to counters.page_ins and counters.page_outs: page_ins
\* grows by one exactly in a fault-in of a file-backed set whose register
\* file exists, page_outs by one exactly when a resident set becomes
\* proxied
PageStep ==
    LET s == wr[1]
        t == wr'[1]
    IN  /\ t.page_ins \in {s.page_ins, s.page_ins + 1}
        /\ t.page_outs \in {s.page_outs, s.page_outs + 1}
        /\ t.page_ins = s.page_ins + 1
              <=> (/\ SetOpened
                   /\ s.is_proxied /\ ~t.is_proxied
                   /\ ~s.in_memory
                   /\ disk[SetName].file)
        /\ t.page_outs = s.page_outs + 1
              <=> (SetOpened /\ ~s.is_proxied /\ t.is_proxied)

\* the counters of a set that was created with no folder on disk
PageCounts ==
    SetOpened
        => IF wr[1].in_memory THEN wr[1].page_ins = 0
           ELSE /\ ~wr[1].is_proxied => wr[1].page_ins = wr[1].page_outs
                /\ (wr[1].is_proxied /\ wr[1].page_outs > 0)
                      => wr[1].page_outs = wr[1].page_ins + 1

SizeKeys == {"k1", "k2"}

SizeNext ==
    \/ \E discover \in BOOLEAN, im \in BOOLEAN : SetOpen(discover, im)
    \/ \E key \in SizeKeys : SetAdd(key)
    \/ SetFlush
    \/ SetClose
    \/ SetDestroy

SpecSize == init_set_manager /\ [][SizeNext]_vars

\* C38: an add that succeeds leaves hset_size at least what it was before
\* the add, on a set that is resident, paged out or just loaded proxied.
C38_AddNeverShrinksSize ==
    [][(SetOpened /\ last'.op = "add" /\ last'.res = "Ok")
          => hset_size(wr'[1]) >= hset_size(wr[1])]_vars

(***************************************************************************)
(* SpecWait: the calls of the set manager with the locks they take.  A     *)
(* worker thread creates, drops and clears sets, adds keys and asks for    *)
(* sizes; the background thread flushes, unmaps, lists and leaves; both    *)
(* checkpoint; the vacuum thread runs its cycle.  A create, drop or clear   *)
(* holds mgr->write_lock to its return; a call on a set goes through       *)
(* take_set and then takes the wrapper's rwlock, the mutex hll_lock and    *)
(* the spin lock hll_update as the steps of SpecLock do; delete_set of the *)
(* vacuum thread takes hll_lock in hset_close.  The locks of the first     *)
(* wrapper are followed step by step; a call on another wrapper is one     *)
(* step.  pending_lock and clients_lock are spin locks whose critical      *)
(* sections take no other lock and are single steps.                       *)
(***************************************************************************)
Threads == Clients \cup {"vacuum"}

\* a call begins
WtStart(c, op, n) ==
    /\ op \in Mutators => vsn + 1 + LiveReserve <= MaxVsn
    /\ op = "create" => FreeSlots(MaxSets) # {}
    /\ op \in TakeOps4 =>
           last.num + Cardinality({x \in Clients : cl[x].op \in TakeOps4}) < MaxCalls
    /\ Start(c, op, n)

\* setmgr_flush_set, setmgr_set_keys, setmgr_set_size, setmgr_unmap_set
\* after take_set: the lock the call waits for, or the return of an unmap
\* on an in_memory set
WtTake(c, key) ==
    /\ cl[c].pc = "use"
    /\ cl[c].w = 1
    /\ wr[1].st = "live"
    /\ cl' = [cl EXCEPT ![c].out = <<key>>,
                        ![c].pc = IF cl[c].op = "unmap"
                                  THEN (IF wr[1].in_memory THEN "leave" ELSE "wrlock")
                                  ELSE "rdlock"]
    /\ UNCHANGED <<wr, disk, last, counters>>
    /\ AddUnchanged

\* setmgr_client_leave: the critical section that unlinks the row of the
\* thread
WtLeave(c) ==
    /\ cl[c].pc = "idle"
    /\ clients[c] # NoRow
    /\ clients' = [clients EXCEPT ![c] = NoRow]
    /\ UNCHANGED <<vsn, primary_vsn, set_map, trees, delta, pending_deletes, write_lock,
                   wr, disk, cl, vac, crashed, last, life, scen, cold, counters, should_run>>

\* a call on another wrapper
WtUse(c, keys) == cl[c].pc = "use" /\ cl[c].w # 1 /\ Use(c, keys)

\* the return of a call that holds no lock
WtReturn(c) == c \notin wr[1].rwlock.readers /\ Return(c)

\* the end of setmgr_set_keys
WtKeysEnd(c) == c \in wr[1].rwlock.readers /\ LkKeysEnd(c)

\* the entry delete_old_versions is at is the DELETE of wrapper w
Reclaims(w) ==
    /\ vac.pc = "reclaim"
    /\ vac.old # <<>>
    /\ vac.old[1].type = Delete
    /\ vac.old[1].set = w

\* delete_old_versions: delete_set, whose hset_close takes hll_lock
WtReclaim ==
    /\ Reclaims(1) => mutex_trylock(wr[1])
    /\ VacReclaim

WaitNext ==
    \/ \E c \in Clients : Checkpoint(c)
    \/ \E c \in Clients : Register(c)
    \/ WtLeave(Background)
    \/ \E op \in WorkerOps, n \in ConcNames : WtStart(Worker, op, n)
    \/ \E op \in BackgroundOps, n \in ConcNames : WtStart(Background, op, n)
    \/ \E q \in ConcPrefixes : WtStart(Background, "list", q)
    \/ \E c \in Clients : Find2(c)
    \/ \E c \in Clients : Walk(c)
    \/ \E c \in Clients : PendAdd(c)
    \/ \E c \in Clients, key \in Keys : WtTake(c, key)
    \/ \E c \in Clients, keys \in KeySeqs(ConcMaxKeys) : WtUse(c, keys)
    \/ \E c \in Clients : WtReturn(c)
    \/ \E c \in Clients : LkRdLock(c)
    \/ \E c \in Clients : LkFaultLock(c)
    \/ \E c \in Clients : LkFaultBuild(c)
    \/ \E c \in Clients : AddLock(c)
    \/ \E c \in Clients : AddRegister(c)
    \/ \E c \in Clients : AddCount(c)
    \/ \E c \in Clients : AddDirty(c)
    \/ \E c \in Clients : WtKeysEnd(c)
    \/ \E c \in Clients : LkSize(c)
    \/ \E c \in Clients : LkFlushCheck(c)
    \/ \E c \in Clients : LkFlushSize(c)
    \/ \E c \in Clients : LkFlushClean(c)
    \/ \E c \in Clients : LkWrLock(c)
    \/ \E c \in Clients : LkCloseLock(c)
    \/ \E c \in Clients : LkClose(c)
    \/ \E c \in Clients : LkUnlock(c)
    \/ VacCatchUp
    \/ VacStart
    \/ VacSwapMap
    \/ VacSwapVsn
    \/ VacBarrier
    \/ VacMerge
    \/ VacUnlink
    \/ WtReclaim
    \/ VacClear

SpecWait == init_set_manager /\ [][WaitNext]_vars

\* the threads that hold the lock thread t waits for: the writer of the
\* rwlock for a reader, the readers and the writer for a writer, the owner
\* of hll_lock, of hll_update and of mgr->write_lock
Blockers(t) ==
    IF t = "vacuum"
    THEN IF \/ vac.pc \in {"barrier", "unlink"}
            \/ (vac.pc = "idle" /\ should_run /\ vsn - primary_vsn = 1)
         THEN {write_lock} \ {"free"}
         ELSE IF Reclaims(1) THEN {wr[1].hll_lock} \ {"free"}
         ELSE {}
    ELSE IF cl[t].pc = "rdlock" THEN {wr[1].rwlock.writer} \ {"free"}
    ELSE IF cl[t].pc = "wrlock"
         THEN (wr[1].rwlock.readers \cup {wr[1].rwlock.writer}) \ {"free"}
    ELSE IF cl[t].pc \in {"flt_lock", "cl_lock"} THEN {wr[1].hll_lock} \ {"free"}
    ELSE IF cl[t].pc = "lock" THEN {wr[1].hll_update} \ {"free"}
    ELSE {}

\* C39: in every state reached by the calls of the clients, the background
\* thread and the vacuum thread, no set of threads is such that each of
\* them waits for a lock that a thread of the set holds: some thread of
\* every set of threads waits for no lock, or for one whose owners are all
\* outside the set.
C39_NoDeadlock ==
    \A S \in SUBSET Threads : S # {} => \E t \in S : Blockers(t) \cap S = {}
\* the background thread waits for the write lock of the wrapper while the
\* worker, a reader in setmgr_set_keys, holds hll_lock in thread_safe_fault
C39_Witness ==
    /\ cl[Background].pc = "wrlock"
    /\ Blockers(Background) = {Worker}
    /\ wr[1].hll_lock = Worker

(***************************************************************************)
(* SpecBytes: the byte length of the registers.  hll_bytes_for_precision   *)
(* is called with a precision inside or outside [HLL_MIN_PRECISION,        *)
(* HLL_MAX_PRECISION]; a set is initialised with a precision (config.ini   *)
(* wins when the folder has one), faulted in by an add, closed (the write  *)
(* of config.ini can fail), destroyed and initialised again, and asked for *)
(* its byte size.  last.num is the precision and last.out the length a     *)
(* call returned.                                                          *)
(***************************************************************************)
HLL_MIN_PRECISION == 4
HLL_MAX_PRECISION == 18
\* the precisions the runs draw from are -1..MaxPrecision
MaxPrecision == 20
Precisions == (0 - 1)..MaxPrecision

RECURSIVE Pow2(_)
Pow2(n) == IF n <= 0 THEN 1 ELSE 2 * Pow2(n - 1)

\* hll_bytes_for_precision: 0 for a precision out of range, else the bytes
\* of the 32-bit words that hold the 2^prec registers, five 6-bit registers
\* to a word (hll.h: "uint32_t *registers"; tests/test_hll.c: 820, 3280
\* and 52432 bytes for 10, 12 and 16)
hll_bytes_for_precision(prec) ==
    IF prec > HLL_MAX_PRECISION \/ prec < HLL_MIN_PRECISION THEN 0
    ELSE 4 * ((Pow2(prec) + 4) \div 5)

\* a byte size that is the size of the mapping and nothing else
hset_byte_size_of_mapping(s) == s.bm_size
\* hset_byte_size: "if (set->bm.size) return set->bm.size;" and
\* hll_bytes_for_precision otherwise
hset_byte_size(s) ==
    IF s.bm_size # 0 THEN s.bm_size ELSE hll_bytes_for_precision(s.precision)

\* thread_safe_fault with the lengths: the anonymous mapping and the new
\* register file have hll_bytes_for_precision bytes, an existing file is
\* mapped at its length, bitmap_from_file refuses the length 0, and
\* hll_init_from_bitmap refuses a precision out of range and a bitmap that
\* is too short.  [s, d, res]
thread_safe_fault_bytes(s, d) ==
    LET size == hll_bytes_for_precision(s.precision)
        fail == [s |-> s, d |-> d, res |-> -1]
        hll(s1, d1, regs) ==
            IF s1.bm_size = 0 \/ s1.bm_size < size \/ size = 0
            THEN [s |-> s1, d |-> d1, res |-> -1]
            ELSE [s |-> [s1 EXCEPT !.is_proxied = FALSE, !.regs = regs],
                  d |-> d1, res |-> 0]
    IN  IF ~s.is_proxied THEN [s |-> s, d |-> d, res |-> 0]
        ELSE IF s.in_memory
        THEN hll(IF size = 0 THEN s ELSE [s EXCEPT !.bm = "open", !.bm_size = size],
                 d, {})
        ELSE IF ~d.dir THEN fail
        ELSE IF d.file
        THEN IF d.len = 0 THEN fail
             ELSE hll([s EXCEPT !.bm = "open", !.bm_size = d.len, !.page_ins = @ + 1],
                      d, d.regs)
        ELSE IF size = 0 THEN fail
        ELSE hll([s EXCEPT !.bm = "open", !.bm_size = size],
                 [d EXCEPT !.file = TRUE, !.len = size, !.regs = {}], {})

\* hset_close, whose hset_flush writes default_precision to config.ini
\* unless the write fails
hset_close_cfg(s, d, cfg_ok) ==
    LET c == hset_close(s, d)
        writes == ~s.is_proxied /\ s.is_dirty /\ d.dir
    IN  [s |-> c.s,
         d |-> IF writes /\ cfg_ok THEN [c.d EXCEPT !.precision = s.precision]
               ELSE [c.d EXCEPT !.ini = d.ini, !.size = d.size,
                                !.in_memory = d.in_memory]]

BytesCall(op, prec, len) ==
    [op |-> op, name |-> SetName, res |-> "Ok", num |-> prec, out |-> <<len>>,
     was |-> "none"]
BytesUnchanged ==
    UNCHANGED <<vsn, primary_vsn, set_map, trees, delta, pending_deletes, clients,
                write_lock, cl, vac, crashed, life, scen, cold, counters, should_run>>

\* hll_bytes_for_precision(prec)
BtBytes(prec) ==
    /\ last' = BytesCall("bytes", prec, hll_bytes_for_precision(prec))
    /\ UNCHANGED <<wr, disk>>
    /\ BytesUnchanged

\* init_set(config, SetName, 0, &set) with config->default_precision = prec
\* and config->in_memory = im; set_config_from_filename reads config.ini
BtOpen(prec, im) ==
    /\ ~SetOpened
    /\ LET d == disk[SetName]
           r == init_set([Unused EXCEPT !.st = "live", !.name = SetName,
                                        !.precision = IF d.ini THEN d.precision
                                                      ELSE prec],
                         d, im, FALSE)
       IN  /\ wr' = [wr EXCEPT ![1] = r.s]
           /\ disk' = [disk EXCEPT ![SetName] = r.d]
           /\ last' = BytesCall("init_set", r.s.precision, 0)
    /\ BytesUnchanged

\* hset_add
BtAdd(key) ==
    /\ SetOpened
    /\ wr[1].page_ins < MaxCalls
    /\ LET f == thread_safe_fault_bytes(wr[1], disk[SetName])
       IN  /\ wr' = [wr EXCEPT ![1] =
                        IF f.res # 0 THEN f.s
                        ELSE [f.s EXCEPT !.regs = @ \cup {key}, !.is_dirty = TRUE]]
           /\ disk' = [disk EXCEPT ![SetName] = f.d]
           /\ last' = [BytesCall("add", wr[1].precision, f.s.bm_size)
                          EXCEPT !.res = IF f.res # 0 THEN "Internal" ELSE "Ok"]
    /\ BytesUnchanged

\* hset_close
BtClose(cfg_ok) ==
    /\ SetOpened
    /\ ~wr[1].is_proxied
    /\ LET c == hset_close_cfg(wr[1], disk[SetName], cfg_ok)
       IN  /\ wr' = [wr EXCEPT ![1] = c.s]
           /\ disk' = [disk EXCEPT ![SetName] = c.d]
    /\ last' = BytesCall("close", wr[1].precision, wr[1].bm_size)
    /\ BytesUnchanged

\* destroy_set: hset_close and the free of the set
BtDestroy(cfg_ok) ==
    /\ SetOpened
    /\ LET c == hset_close_cfg(wr[1], disk[SetName], cfg_ok)
       IN  disk' = [disk EXCEPT ![SetName] = c.d]
    /\ wr' = [wr EXCEPT ![1] = Unused]
    /\ last' = BytesCall("destroy", wr[1].precision, wr[1].bm_size)
    /\ BytesUnchanged

\* hset_byte_size
BtByteSize ==
    /\ SetOpened
    /\ last' = BytesCall("byte_size", wr[1].precision, hset_byte_size(wr[1]))
    /\ UNCHANGED <<wr, disk>>
    /\ BytesUnchanged

BytesNext ==
    \/ \E prec \in Precisions : BtBytes(prec)
    \/ \E prec \in Precisions, im \in BOOLEAN : BtOpen(prec, im)
    \/ \E key \in Keys : BtAdd(key)
    \/ \E cfg_ok \in BOOLEAN : BtClose(cfg_ok)
    \/ \E cfg_ok \in BOOLEAN : BtDestroy(cfg_ok)
    \/ BtByteSize

SpecBytes == init_set_manager /\ [][BytesNext]_vars

\* ceil(6 * 2^prec / 8): the bytes of 2^prec registers packed six bits each
PackedBytes(prec) == (6 * Pow2(prec) + 7) \div 8
InRange(prec) == prec >= HLL_MIN_PRECISION /\ prec <= HLL_MAX_PRECISION

====
